---- MODULE Spec2Model ----
(***************************************************************************)
(* Model of the user compliance state machine (backend/training/           *)
(* user_state.py) and of the collaborators that drive it (api_server.py,   *)
(* scheduler.py, mailer/email_logger.py).                                  *)
(*                                                                         *)
(* UserStateManager.transition() is modelled statement by statement: each  *)
(* SQL statement, the commit, the Firestore mirror and the two auto-chain  *)
(* tests are separate steps of the calling thread, so that calls made by   *)
(* different threads interleave as they do on per-thread SQLite            *)
(* connections.  The recursion of the auto-chain is a per-thread stack of  *)
(* activation frames.                                                      *)
(***************************************************************************)
EXTENDS Integers, Sequences, FiniteSets, TLC

\* ------------------------------------------------------------------------
\* Bounds of the model
\* ------------------------------------------------------------------------
Users == {"u1", "u2"}
Threads == {"t1", "t2"}
\* audit-log rows the model lets accumulate: one thread, two users
MaxRowsSeq == 8
\* audit-log rows the model lets accumulate: two threads, two users
MaxRowsConc == 5
\* audit-log rows the model lets accumulate: two threads, one user
MaxRowsRace == 7
\* audit-log rows the model lets accumulate: request handlers, one thread
MaxRowsApp == 8
\* nesting depth of transition() activations the model follows
MaxDepth == 4
\* rows of email_events the model lets accumulate
MaxEmails == 2
\* rows of email_interactions the model lets accumulate
MaxInteractions == 2
\* rows of training_sessions the model lets accumulate
MaxSessions == 2
\* behavioral events the model lets accumulate
MaxEvents == 2
\* rows of pipeline_runs the model lets accumulate
MaxRuns == 1
\* denominator up to which the model lets a csv score be cut again
MaxDenominator == 10
\* audit-log rows the model lets accumulate: calls and queries, one thread
MaxRowsQuery == 4
\* ticks of the clock the model follows
MaxClock == 2
\* largest limit a caller of get_history passes
MaxLimit == 2
\* rows of the DataFrame a caller of decide_training_actions passes
MaxFrameRows == 2
\* largest risk score such a caller passes, in tenths
MaxTenths == 11
\* loop threads the model lets start_scheduler create
MaxLoops == 2
\* pipeline runs and audit-log rows the model follows when a scheduler
\* cycle and a pipeline request share the platform
MaxRunsPipeline == 2
MaxRowsPipeline == 6
\* events of a batch handed to extract_user_features
MaxBatch == 3
\* largest anomaly score the forest gives
MaxAnomaly == 2
\* largest value of a Series or of a column anomaly_score passed to
\* compute_risk_score directly
MaxLevel == 3
\* rows of a frame passed to compute_risk_score directly
MaxScored == 3

\* ------------------------------------------------------------------------
\* user_state.py: states and transition table
\* ------------------------------------------------------------------------
STATES ==
    {"CLEAN", "PHISH_SENT", "PHISH_CLICKED", "MICRO_TRAINING_REQUIRED",
     "MICRO_TRAINING_COMPLETED", "MANDATORY_TRAINING_REQUIRED", "COMPLIANT"}

\* TRANSITIONS with the target of (PHISH_SENT, phish_ignored) mistyped
TRANSITIONS_wrongTarget ==
    (<<"CLEAN", "email_sent">> :> "PHISH_SENT") @@
    (<<"PHISH_SENT", "phish_clicked">> :> "PHISH_CLICKED") @@
    (<<"PHISH_SENT", "phish_reported">> :> "COMPLIANT") @@
    (<<"PHISH_SENT", "phish_ignored">> :> "CLEAN") @@
    (<<"PHISH_CLICKED", "micro_training_assigned">> :> "MICRO_TRAINING_REQUIRED") @@
    (<<"MICRO_TRAINING_REQUIRED", "micro_completed">> :> "MICRO_TRAINING_COMPLETED") @@
    (<<"MICRO_TRAINING_COMPLETED", "mandatory_assigned">> :> "MANDATORY_TRAINING_REQUIRED") @@
    (<<"MANDATORY_TRAINING_REQUIRED", "mandatory_completed">> :> "COMPLIANT") @@
    (<<"COMPLIANT", "email_sent">> :> "PHISH_SENT")

\* TRANSITIONS with one entry too many: a click accepted from CLEAN
TRANSITIONS_extraEntry ==
    (<<"CLEAN", "phish_clicked">> :> "PHISH_CLICKED") @@
    TRANSITIONS_wrongTarget @@
    (<<"PHISH_SENT", "phish_ignored">> :> "COMPLIANT")

\* TRANSITIONS without the entry that starts a new cycle
TRANSITIONS_noNewCycle ==
    (<<"CLEAN", "email_sent">> :> "PHISH_SENT") @@
    (<<"PHISH_SENT", "phish_clicked">> :> "PHISH_CLICKED") @@
    (<<"PHISH_SENT", "phish_reported">> :> "COMPLIANT") @@
    (<<"PHISH_SENT", "phish_ignored">> :> "COMPLIANT") @@
    (<<"PHISH_CLICKED", "micro_training_assigned">> :> "MICRO_TRAINING_REQUIRED") @@
    (<<"MICRO_TRAINING_REQUIRED", "micro_completed">> :> "MICRO_TRAINING_COMPLETED") @@
    (<<"MICRO_TRAINING_COMPLETED", "mandatory_assigned">> :> "MANDATORY_TRAINING_REQUIRED") @@
    (<<"MANDATORY_TRAINING_REQUIRED", "mandatory_completed">> :> "COMPLIANT")

\* TRANSITIONS without the entry that leaves MANDATORY_TRAINING_REQUIRED
TRANSITIONS_noMandatoryExit ==
    (<<"CLEAN", "email_sent">> :> "PHISH_SENT") @@
    (<<"PHISH_SENT", "phish_clicked">> :> "PHISH_CLICKED") @@
    (<<"PHISH_SENT", "phish_reported">> :> "COMPLIANT") @@
    (<<"PHISH_SENT", "phish_ignored">> :> "COMPLIANT") @@
    (<<"PHISH_CLICKED", "micro_training_assigned">> :> "MICRO_TRAINING_REQUIRED") @@
    (<<"MICRO_TRAINING_REQUIRED", "micro_completed">> :> "MICRO_TRAINING_COMPLETED") @@
    (<<"MICRO_TRAINING_COMPLETED", "mandatory_assigned">> :> "MANDATORY_TRAINING_REQUIRED") @@
    (<<"COMPLIANT", "email_sent">> :> "PHISH_SENT")

\* TRANSITIONS whose auto-assigned micro training leaves the user in
\* PHISH_CLICKED, the state that triggers the auto-assignment
TRANSITIONS_chainLoop ==
    (<<"PHISH_CLICKED", "micro_training_assigned">> :> "PHISH_CLICKED") @@
    TRANSITIONS_noNewCycle @@
    (<<"COMPLIANT", "email_sent">> :> "PHISH_SENT")

\* TRANSITIONS without the entry the auto-chain of a click relies on
TRANSITIONS_noMicroAssign ==
    (<<"CLEAN", "email_sent">> :> "PHISH_SENT") @@
    (<<"PHISH_SENT", "phish_clicked">> :> "PHISH_CLICKED") @@
    (<<"PHISH_SENT", "phish_reported">> :> "COMPLIANT") @@
    (<<"PHISH_SENT", "phish_ignored">> :> "COMPLIANT") @@
    (<<"MICRO_TRAINING_REQUIRED", "micro_completed">> :> "MICRO_TRAINING_COMPLETED") @@
    (<<"MICRO_TRAINING_COMPLETED", "mandatory_assigned">> :> "MANDATORY_TRAINING_REQUIRED") @@
    (<<"MANDATORY_TRAINING_REQUIRED", "mandatory_completed">> :> "COMPLIANT") @@
    (<<"COMPLIANT", "email_sent">> :> "PHISH_SENT")

\* TRANSITIONS whose report of a phish returns the user to CLEAN
TRANSITIONS_backToClean ==
    (<<"PHISH_SENT", "phish_reported">> :> "CLEAN") @@
    TRANSITIONS_noNewCycle @@
    (<<"COMPLIANT", "email_sent">> :> "PHISH_SENT")

TRANSITIONS ==
    (<<"CLEAN", "email_sent">> :> "PHISH_SENT") @@
    (<<"PHISH_SENT", "phish_clicked">> :> "PHISH_CLICKED") @@
    (<<"PHISH_SENT", "phish_reported">> :> "COMPLIANT") @@
    (<<"PHISH_SENT", "phish_ignored">> :> "COMPLIANT") @@
    (<<"PHISH_CLICKED", "micro_training_assigned">> :> "MICRO_TRAINING_REQUIRED") @@
    (<<"MICRO_TRAINING_REQUIRED", "micro_completed">> :> "MICRO_TRAINING_COMPLETED") @@
    (<<"MICRO_TRAINING_COMPLETED", "mandatory_assigned">> :> "MANDATORY_TRAINING_REQUIRED") @@
    (<<"MANDATORY_TRAINING_REQUIRED", "mandatory_completed">> :> "COMPLIANT") @@
    (<<"COMPLIANT", "email_sent">> :> "PHISH_SENT")

\* Triggers a caller may pass: the eight names of the table and one name
\* that appears nowhere in it.
Triggers ==
    {"email_sent", "phish_clicked", "phish_reported", "phish_ignored",
     "micro_training_assigned", "micro_completed", "mandatory_assigned",
     "mandatory_completed", "unknown_trigger"}

\* the reason text of a caller, and the two texts of the auto-chain
CallerReason == "caller reason"
ReasonAutoMicro == "Auto-assigned on phish click"
ReasonAutoMandatory == "Auto-assigned after micro-training"

\* absence of a row in user_states
NoRow == "NO_ROW"
\* nobody holds the SQLite write lock
NoThread == "none"
\* a local of a frame that has not been assigned yet
Unset == "unset"

VARIABLES
    user_states,        \* table user_states as committed: user -> state | NoRow
    state_transitions,  \* table state_transitions as committed, in rowid order
    txn,                \* per thread: the open transaction of its connection
    wlock,              \* the thread holding the database write lock
    stack,              \* per thread: activations of transition(), top last
    deploy,             \* the deployment: threads that serve calls, users
                        \* that exist, audit rows the model follows
    accepted,           \* history: transitions that passed the table test
    syncs,              \* history: invocations of _sync_to_firestore
    email_events,       \* email_events.db: table email_events, in rowid order
    email_interactions, \* email_events.db: table email_interactions
    training_sessions,  \* email_events.db: table training_sessions
    behavioral_events,  \* behavioral_events.db: events stored per user
    pipeline_runs,      \* behavioral_events.db: table pipeline_runs
    final_csv,          \* final_risk_scores.csv: whether it exists, its rows
    last_event_count,   \* scheduler._last_event_count
    handler,            \* per thread: the request handler or scheduler
                        \* cycle it is running and its position
    clock,              \* the value datetime.utcnow() returns
    timestamps,         \* column timestamp of state_transitions, by rowid
    query,              \* per thread: the query it made and its result
    risk_frame,         \* the DataFrame a caller of decide_training_actions
                        \* passes
    training_actions,   \* what decide_training_actions gave that caller
    auth_df,            \* the batch of events handed to the scoring stages
    features,           \* what extract_user_features gave
    anomalies,          \* what run_isolation_forest gave
    score_args,         \* the optional Series passed to compute_risk_score
    results,            \* what compute_risk_score gave
    scheduler_running,  \* scheduler._scheduler_running
    scheduler_lock,     \* the caller holding scheduler._scheduler_lock
    scheduler_threads,  \* the loop threads start_scheduler has created, in
                        \* order; _scheduler_thread is the last one
    lifecycle           \* per caller: its call of start_scheduler or
                        \* stop_scheduler and its position in it

\* the state of a caller of the scoring stages
scorevars == <<auth_df, features, anomalies, score_args, results>>

\* the state of the scheduler's lifecycle
schedvars == <<scheduler_running, scheduler_lock, scheduler_threads,
               lifecycle>>

\* the state of a caller of decide_training_actions and of the scoring
\* stages, and the scheduler's lifecycle
decidevars == <<risk_frame, training_actions, scorevars, schedvars>>

\* the state of the compliance state machine and of its callers' threads
libvars == <<user_states, state_transitions, txn, wlock, stack, deploy,
                 decidevars,
             accepted, syncs, clock, timestamps, query>>

\* the state of the collaborators
appvars == <<email_events, email_interactions, training_sessions,
             behavioral_events, pipeline_runs, final_csv, last_event_count,
             handler>>

vars == <<user_states, state_transitions, txn, wlock, stack, deploy,
          accepted, syncs, email_events, email_interactions,
          training_sessions, behavioral_events, pipeline_runs, final_csv,
          last_event_count, handler, clock, timestamps, query,
          risk_frame, training_actions, auth_df, features, anomalies,
          score_args, results, scheduler_running, scheduler_lock,
          scheduler_threads, lifecycle>>

\* ------------------------------------------------------------------------
\* SQLite connection semantics (sqlite3 default isolation level: the first
\* INSERT opens a transaction that lasts until commit())
\* ------------------------------------------------------------------------
\* the thread is in no query
NoQuery == [op |-> "none", user_id |-> "", limit |-> 0, result |-> <<>>]

NoTxn == [open |-> FALSE, row |-> <<>>, log |-> <<>>]

\* UpsertVisible on a connection in autocommit mode: the upsert is visible
\* to other connections at once
UpsertVisible_autocommit(rows, user_id, new_state) ==
    [rows EXCEPT ![user_id] = new_state]

\* What an INSERT .. ON CONFLICT DO UPDATE executed inside the open
\* transaction changes in the table other connections read: nothing.
UpsertVisible(rows, user_id, new_state) == rows

\* What an INSERT INTO state_transitions executed inside the open
\* transaction changes in the table other connections read: nothing.
LogVisible(log, row) == log

\* CommitRows of an upsert whose DO UPDATE reaches every existing row
CommitRows_allRows(rows, tx) ==
    IF tx.row = <<>> THEN rows
    ELSE [u \in DOMAIN rows |->
            IF u = tx.row[1] \/ rows[u] # NoRow THEN tx.row[2] ELSE rows[u]]

\* conn.commit(): the staged upsert reaches the table
CommitRows(rows, tx) ==
    IF tx.row = <<>> THEN rows
    ELSE [rows EXCEPT ![tx.row[1]] = tx.row[2]]

\* CommitLog of an INSERT OR REPLACE that reuses the latest rowid
CommitLog_replaceLast(log, tx) ==
    IF log = <<>> THEN tx.log ELSE SubSeq(log, 1, Len(log) - 1) \o tx.log

\* conn.commit(): the staged log rows are appended in statement order
CommitLog(log, tx) == log \o tx.log

\* get_state() without the default of line 106
get_state_noDefault(rows, user_id) == rows[user_id]

\* get_state(): the committed row, CLEAN when there is none
get_state(rows, user_id) ==
    IF rows[user_id] = NoRow THEN "CLEAN" ELSE rows[user_id]

\* ------------------------------------------------------------------------
\* _sync_to_firestore(): what reaches the caller for each thing the mirror
\* can do.  "ok": the document was set; "unavailable": _get_firestore()
\* gave None; "exception": the import, the client or set() raised.
\* ------------------------------------------------------------------------
MirrorOutcomes == {"ok", "unavailable", "exception"}

\* sync_to_firestore without the except clause
sync_to_firestore_noExcept(outcome) ==
    IF outcome = "exception" THEN "raised" ELSE "returned"

sync_to_firestore(outcome) == "returned"

\* ------------------------------------------------------------------------
\* Activation frames of transition()
\* ------------------------------------------------------------------------
\* rows0 (history): the audit rows of user_id when the outermost call began
NewFrame(user_id, trigger, reason, rows0) ==
    [user_id |-> user_id, trigger |-> trigger, reason |-> reason,
     current |-> Unset, new_state |-> Unset, pc |-> "get_state",
     success |-> FALSE, mirror |-> Unset, resume |-> 0, rows0 |-> rows0,
     now |-> 0]

Top(t) == stack[t][Len(stack[t])]

SetTop(t, f) == [stack EXCEPT ![t] = [@ EXCEPT ![Len(@)] = f]]

AtPc(t, pc) == t \in deploy.workers /\ stack[t] # <<>> /\ Top(t).pc = pc

\* AutoChain without the test of line 217
AutoChain_noMicroChain(new_state, from) ==
    IF from <= 2 /\ new_state = "MICRO_TRAINING_COMPLETED" THEN 2 ELSE 0

\* AutoChain without the test of line 221
AutoChain_noMandatoryChain(new_state, from) ==
    IF from <= 1 /\ new_state = "PHISH_CLICKED" THEN 1 ELSE 0

\* lines 216-222: the auto-chain test an activation that moved the user to
\* new_state reaches next, starting at test `from`: 1 = the call of line
\* 218, 2 = the call of line 222, 0 = none, the activation returns.
AutoChain(new_state, from) ==
    IF from <= 1 /\ new_state = "PHISH_CLICKED" THEN 1
    ELSE IF from <= 2 /\ new_state = "MICRO_TRAINING_COMPLETED" THEN 2
    ELSE 0

ChainTrigger(c) ==
    IF c = 1 THEN "micro_training_assigned" ELSE "mandatory_assigned"

ChainReason(c) ==
    IF c = 1 THEN ReasonAutoMicro ELSE ReasonAutoMandatory

\* The top activation of stk goes on with the auto-chain tests from test
\* `from`: it either makes a chained call (and will resume at the next
\* test) or has its result ready.
Continue(stk, from) ==
    LET f == stk[Len(stk)]
        c == AutoChain(f.new_state, from)
    IN IF c = 0
       THEN [stk EXCEPT ![Len(stk)].pc = "done"]
       ELSE Append([stk EXCEPT ![Len(stk)].pc = "chained",
                               ![Len(stk)].resume = c + 1],
                   NewFrame(f.user_id, ChainTrigger(c), ChainReason(c), f.rows0))

\* rows of one user, in rowid order
RECURSIVE RowsOf(_, _)
RowsOf(log, u) ==
    IF log = <<>> THEN <<>>
    ELSE IF log[1].user_id = u THEN <<log[1]>> \o RowsOf(Tail(log), u)
         ELSE RowsOf(Tail(log), u)

RowBound == deploy.rows

\* ========================================================================
\* The collaborators: request handlers of api_server.py and the scheduler
\* cycle of scheduler.py.  Each runs on a thread; where it calls
\* transition() the thread goes through the steps above and the handler
\* resumes when the outermost activation has its result.
\* ========================================================================
\* final_risk_scores.csv before the first pipeline run
NoFile == [exists |-> FALSE, rows |-> <<>>]

CsvFile(rows) == [exists |-> TRUE, rows |-> rows]

NoUser == "nobody"

\* config.py line 65: the default of RISK_THRESHOLD_EMAIL, as a fraction
RISK_THRESHOLD_EMAIL == [n |-> 1, d |-> 2]

\* a risk score is the fraction n / d
Geq(a, b) == a.n * b.d >= b.n * a.d

\* the scores the pipeline may give a user: the model follows three levels
ScoreLevels == {[n |-> 0, d |-> 2], [n |-> 1, d |-> 2], [n |-> 2, d |-> 2]}

\* thresholds a caller of POST /api/email/send-auto may pass
Thresholds == {[n |-> 0, d |-> 2], RISK_THRESHOLD_EMAIL}

\* mandatory_complete lines 1080-1081: new_score = max(0.0, old_score * 0.8)
ReduceScore(s) == IF s.n = 0 THEN s ELSE [n |-> s.n * 4, d |-> s.d * 5]

Idle == [name |-> "idle", pc |-> "idle", user |-> NoUser, todo |-> <<>>,
         token |-> 0, run |-> 0, status |-> 0]

\* email_logger.py lines 306-312
HasPendingTraining(sessions, user_id) ==
    \E i \in DOMAIN sessions :
        /\ sessions[i].user_id = user_id
        /\ sessions[i].status \in {"assigned", "in_progress"}

\* email_logger.py lines 273-282
CompleteTrainingForUser(sessions, user_id) ==
    [i \in DOMAIN sessions |->
        IF /\ sessions[i].user_id = user_id
           /\ sessions[i].status \in {"assigned", "in_progress"}
        THEN [sessions[i] EXCEPT !.status = "completed"]
        ELSE sessions[i]]

\* email_logger.py lines 237-253
CreateTrainingSession(sessions, user_id, training_type, email_id) ==
    Append(sessions, [user_id |-> user_id, training_type |-> training_type,
                      status |-> "assigned", trigger_email_id |-> email_id])

\* email_logger.py lines 99-121: the row of a sent email; its tracking
\* token is fresh, the model uses the row's number
LogEmailSent(emails, user_id, sent_via) ==
    Append(emails, [tracking_token |-> Len(emails) + 1, user_id |-> user_id,
                    status |-> "sent", sent_via |-> sent_via])

\* email_logger.py lines 135-141: the tracking token names a logged email
KnownToken(emails, token) == token \in DOMAIN emails

\* email_logger.py lines 153-161: the status update of log_interaction
InteractionStatus(interaction) ==
    IF interaction = "click" THEN "clicked"
    ELSE IF interaction = "open" THEN "opened"
    ELSE IF interaction = "report" THEN "reported"
    ELSE "interacted"

UpdateEmailStatus(emails, token, interaction) ==
    IF emails[token].status # "clicked"
    THEN [emails EXCEPT ![token].status = InteractionStatus(interaction)]
    ELSE emails

\* the users of a sequence of csv rows, in row order
RECURSIVE UsersOf(_)
UsersOf(rows) ==
    IF rows = <<>> THEN <<>> ELSE <<rows[1].user>> \o UsersOf(Tail(rows))

\* df[df["final_risk_score"] >= threshold], in row order
RECURSIVE HighRisk(_, _)
HighRisk(rows, threshold) ==
    IF rows = <<>> THEN <<>>
    ELSE IF Geq(rows[1].final_risk_score, threshold)
         THEN <<rows[1]>> \o HighRisk(Tail(rows), threshold)
         ELSE HighRisk(Tail(rows), threshold)

\* users with stored behavioral events
UsersWithEvents == {u \in Users : behavioral_events[u] > 0}

\* event_store.py lines 160-163: total_events
TotalEvents ==
    LET RECURSIVE Sum(_)
        Sum(S) == IF S = {} THEN 0
                  ELSE LET u == CHOOSE x \in S : TRUE
                       IN behavioral_events[u] + Sum(S \ {u})
    IN Sum(Users)

\* risk_score.py line 164: the scored table is sorted by final_risk_score,
\* highest first
SortedDesc(rows) ==
    \A i \in 1..(Len(rows) - 1) :
        Geq(rows[i].final_risk_score, rows[i + 1].final_risk_score)

\* risk_score.py line 129 on scores n / d: 0.5 * ml + 0.5 * rb
HalfSum(ml, rb) == [n |-> ml.n * rb.d + rb.n * ml.d, d |-> 2 * ml.d * rb.d]

\* the rows a pipeline run may write for the users us: the two components
\* at any level, the final score blended from them
ScoredRows(us) ==
    {[user |-> u, ml_anomaly_score |-> ml, rule_based_score |-> rb,
      final_risk_score |-> HalfSum(ml, rb)] :
        u \in us, ml \in ScoreLevels, rb \in ScoreLevels}

\* The tables a pipeline run over the users us may write: one row per user,
\* sorted.  The scores depend on the events' content, which the model does
\* not follow, so every assignment of levels is possible.
ScoreTables(us) ==
    {tbl \in [1..Cardinality(us) -> ScoredRows(us)] :
        /\ \A i, j \in 1..Cardinality(us) : i # j => tbl[i].user # tbl[j].user
        /\ SortedDesc(tbl)}

\* mandatory_complete lines 1076-1083: the user's score in the csv is cut
ReduceCsv(csv, user_id) ==
    IF ~csv.exists THEN csv
    ELSE CsvFile([i \in DOMAIN csv.rows |->
                    IF csv.rows[i].user = user_id
                    THEN [csv.rows[i] EXCEPT
                            !.final_risk_score = ReduceScore(@)]
                    ELSE csv.rows[i]])

\* the thread runs neither a handler nor a call
Free(t) == t \in deploy.workers /\ handler[t] = Idle /\ stack[t] = <<>>

Busy == Cardinality({t \in Threads : handler[t] # Idle \/ stack[t] # <<>>})

\* the emails the handlers in progress may still log
EmailsReserved ==
    LET Need(h) == Len(h.todo)
                   + (IF h.pc \in {"dispatch", "in_transition"}
                         /\ h.name \in {"send_email", "send_email_auto",
                                        "pipeline_run", "scheduler_cycle"}
                      THEN 1 ELSE 0)
                   + (IF h.pc = "compute" THEN Cardinality(deploy.users) ELSE 0)
        RECURSIVE Sum(_)
        Sum(S) == IF S = {} THEN 0
                  ELSE LET t == CHOOSE x \in S : TRUE
                       IN Need(handler[t]) + Sum(S \ {t})
    IN Sum(Threads)

EmailsFit(n) == Len(email_events) + EmailsReserved + n <= MaxEmails

\* the handler of thread t has its response ready
Respond(h, status) == [Idle EXCEPT !.name = h.name, !.pc = "respond",
                                   !.user = h.user, !.status = status]

\* The calls of transition() in the collaborators and the trigger each
\* passes: api_server.py lines 676, 848, 903, 959, 1075 and scheduler.py
\* line 150.  There is no other call outside user_state.py.
HandlerTrigger ==
    [send_email |-> "email_sent",
     send_email_auto |-> "email_sent",
     pipeline_run |-> "email_sent",
     scheduler_cycle |-> "email_sent",
     track_email_click |-> "phish_clicked",
     report_email |-> "phish_reported",
     complete_training_landing |-> "micro_completed",
     mandatory_complete |-> "mandatory_completed"]

\* the handler of thread t calls transition()
EnterTransition(t, user_id, trigger) ==
    stack' = [stack EXCEPT ![t] =
                <<NewFrame(user_id, trigger, CallerReason,
                           Len(RowsOf(state_transitions, user_id)))>>]

\* the call of the handler of thread t has returned or raised
Returned(t) ==
    /\ stack[t] # <<>>
    /\ \/ AtPc(t, "done") /\ Len(stack[t]) = 1
       \/ AtPc(t, "raised")

HandlerAt(t, names, pc) == handler[t].name \in names /\ handler[t].pc = pc

SetHandler(t, h) == handler' = [handler EXCEPT ![t] = h]


\* the rows of a new call or handler fit in the rows the model follows (a
\* call appends at most two rows, a handler at most one per user)
Fits == Len(state_transitions) + 2 * (Busy + 1) <= RowBound

\* ------------------------------------------------------------------------
\* Init
\* ------------------------------------------------------------------------
InitDb ==
    /\ user_states = [u \in Users |-> NoRow]
    /\ state_transitions = <<>>
    /\ txn = [t \in Threads |-> NoTxn]
    /\ wlock = NoThread
    /\ stack = [t \in Threads |-> <<>>]
    /\ accepted = 0
    /\ syncs = 0
    /\ email_events = <<>>
    /\ email_interactions = <<>>
    /\ training_sessions = <<>>
    /\ behavioral_events = [u \in Users |-> 0]
    /\ pipeline_runs = <<>>
    /\ final_csv = NoFile
    /\ last_event_count = 0
    /\ handler = [t \in Threads |-> Idle]
    /\ clock = 0
    /\ timestamps = <<>>
    /\ query = [t \in Threads |-> NoQuery]

\* ------------------------------------------------------------------------
\* decide_training_actions(df), training_decision.py lines 40-113.
\* A DataFrame is the set of its columns and the cells of its column
\* risk_score by row; the column user is copied through untouched, so a row
\* is known by its position.  A cell is a float (the fraction n / d), NaN,
\* None, or a string of characters.
\* ------------------------------------------------------------------------
REQUIRED_COLUMNS == <<"user", "risk_score">>

MICRO_TRAINING_URL == "https://example.com/micro-training-placeholder"

MANDATORY_TRAINING_URL == "https://example.com/mandatory-training-placeholder"

\* lines 95-97: the literals 0.3 and 0.6
LowThreshold == [n |-> 3, d |-> 10]

HighThreshold == [n |-> 6, d |-> 10]

Float(n, d) == [kind |-> "float", n |-> n, d |-> d]

NaN == [kind |-> "nan"]

None == [kind |-> "none"]

Str(text) == [kind |-> "str", text |-> text]

Lt(a, b) == a.n * b.d < b.n * a.d

Digits == {"0", "1", "2", "3", "4", "5", "6", "7", "8", "9"}

DigitValue(c) ==
    CASE c = "0" -> 0 [] c = "1" -> 1 [] c = "2" -> 2 [] c = "3" -> 3
      [] c = "4" -> 4 [] c = "5" -> 5 [] c = "6" -> 6 [] c = "7" -> 7
      [] c = "8" -> 8 [] c = "9" -> 9

RECURSIVE DigitsValue(_)
DigitsValue(s) ==
    IF s = <<>> THEN 0
    ELSE 10 * DigitsValue(SubSeq(s, 1, Len(s) - 1)) + DigitValue(s[Len(s)])

RECURSIVE Pow10(_)
Pow10(k) == IF k = 0 THEN 1 ELSE 10 * Pow10(k - 1)

\* what pd.to_numeric makes of a string: plain decimal notation is read
\* as the number it writes, any other text is not a number
ParseFloat(text) ==
    LET dots == {i \in 1..Len(text) : text[i] = "."}
        digits == SelectSeq(text, LAMBDA c : c # ".")
        places == IF dots = {} THEN 0
                  ELSE Len(text) - (CHOOSE i \in dots : TRUE)
    IN  IF /\ Cardinality(dots) <= 1
           /\ digits # <<>>
           /\ \A i \in 1..Len(digits) : digits[i] \in Digits
        THEN Float(DigitsValue(digits), Pow10(places))
        ELSE NaN

\* line 87: pd.to_numeric(out["risk_score"], errors="coerce"), cell by cell
to_numeric(cell) ==
    CASE cell.kind = "float" -> cell
      [] cell.kind = "str" -> ParseFloat(cell.text)
      [] OTHER -> NaN

\* line 77
missing(df) == SelectSeq(REQUIRED_COLUMNS, LAMBDA c : c \notin df.columns)

\* line 95
cond_none(score) == Lt(score, LowThreshold)

\* line 96
cond_micro_exclusiveLow(score) ==
    Lt(LowThreshold, score) /\ Lt(score, HighThreshold)

cond_micro(score) == Geq(score, LowThreshold) /\ Lt(score, HighThreshold)

\* line 97
cond_mandatory(score) == Geq(score, HighThreshold)

\* lines 99-110, for one row: the action is filled with NONE, overwritten
\* where cond_micro holds and then where cond_mandatory holds; each URL
\* column is filled with "" and overwritten where its condition holds
AnnotatedRow(score) ==
    [risk_score |-> score,
     training_action |->
        IF cond_mandatory(score) THEN "MANDATORY"
        ELSE IF cond_micro(score) THEN "MICRO"
        ELSE "NONE",
     micro_training_url |->
        IF cond_micro(score) THEN MICRO_TRAINING_URL ELSE "",
     mandatory_training_url |->
        IF cond_mandatory(score) THEN MANDATORY_TRAINING_URL ELSE ""]

NotCalled == [status |-> "not called"]

\* a raised ValueError: the text of its message and the values the
\* message is formatted with
ValueError(text, columns, n_bad) ==
    [status |-> "ValueError", text |-> text, columns |-> columns,
     n_bad |-> n_bad]

ReturnedFrame(rows) == [status |-> "returned", rows |-> rows]

decide_training_actions(df) ==
    IF missing(df) # <<>>
    THEN ValueError("input DataFrame is missing required column(s)",
                    missing(df), 0)
    ELSE
        LET out == [i \in 1..Len(df.risk_score) |->
                        to_numeric(df.risk_score[i])]
            n_bad == Cardinality({i \in 1..Len(out) : out[i] = NaN})
        IN  IF n_bad > 0
            THEN ValueError("'risk_score' contains non-numeric or missing value(s)",
                            <<>>, n_bad)
            ELSE ReturnedFrame([i \in 1..Len(out) |-> AnnotatedRow(out[i])])

NoFrame == [columns |-> {}, risk_score |-> <<>>]

\* the cells a caller may pass: scores in tenths from below 0 to above 1,
\* scores next to the thresholds, missing values, and strings
Cells ==
    {Float(n, 10) : n \in -1..MaxTenths}
        \cup {Float(29, 100), Float(31, 100), Float(59, 100), Float(61, 100)}
        \cup {NaN, None}
        \cup {Str(<<"0", ".", "3">>), Str(<<"0", ".", "6">>), Str(<<"1">>),
              Str(<<"a", "b", "c">>), Str(<<>>)}

\* the DataFrames a caller may pass
DataFrames ==
    {[columns |-> c, risk_score |-> <<>>] : c \in SUBSET {"user"}}
        \cup {[columns |-> c \cup {"risk_score"}, risk_score |-> r] :
                c \in SUBSET {"user"},
                r \in UNION {[1..k -> Cells] : k \in 0..MaxFrameRows}}

\* ------------------------------------------------------------------------
\* The scoring pipeline: feature_extractor.py, isolation_forest.py and
\* risk_score.py.
\*
\* A float of the scoring code is the number n / d - eps * (en / ed), where
\* eps stands for the 1e-12 of risk_score.py line 22: a quantity above zero
\* and below every difference between two numbers the bounded inputs can
\* produce.  Numbers are kept to first order in eps and in lowest terms, so
\* equal numbers are equal records.
\* ------------------------------------------------------------------------
Abs(x) == IF x < 0 THEN -x ELSE x

RECURSIVE GCD(_, _)
GCD(a, b) == IF b = 0 THEN Abs(a) ELSE GCD(b, a % b)

\* the fraction n / d in lowest terms, d > 0
Frac(n, d) ==
    LET g == GCD(n, d)
    IN  IF n = 0 THEN <<0, 1>> ELSE <<n \div g, d \div g>>

Num(n, d, en, ed) ==
    LET a == Frac(n, d)
        b == Frac(en, ed)
    IN  [n |-> a[1], d |-> a[2], en |-> b[1], ed |-> b[2]]

\* the float that is exactly n / d
Exact(n, d) == Num(n, d, 0, 1)

NumAdd(x, y) ==
    Num(x.n * y.d + y.n * x.d, x.d * y.d,
        x.en * y.ed + y.en * x.ed, x.ed * y.ed)

NumSub(x, y) ==
    Num(x.n * y.d - y.n * x.d, x.d * y.d,
        x.en * y.ed - y.en * x.ed, x.ed * y.ed)

\* the product of the float x and the literal wn / wd
NumScale(wn, wd, x) == Num(wn * x.n, wd * x.d, wn * x.en, wd * x.ed)

\* x < y: the parts without eps decide; where they are equal, the number
\* that loses more eps is the smaller one
NumLt(x, y) ==
    \/ x.n * y.d < y.n * x.d
    \/ /\ x.n * y.d = y.n * x.d
       /\ x.en * y.ed > y.en * x.ed

NumLeq(x, y) == ~NumLt(y, x)

NumGt(x, y) == NumLt(y, x)

NumGeq(x, y) == ~NumLt(x, y)

\* x / (denom + eps) for floats x, denom without eps, denom > 0:
\* x / denom - eps * x / denom^2
DivEps(x, denom) ==
    Num(x.n * denom.d, x.d * denom.n,
        x.n * denom.d * denom.d, x.d * denom.n * denom.n)

\* a Series is a sequence of floats, one per row of the frame it belongs to
SeriesMin(s) == CHOOSE v \in {s[i] : i \in DOMAIN s} :
                    \A i \in DOMAIN s : NumLeq(v, s[i])

SeriesMax(s) == CHOOSE v \in {s[i] : i \in DOMAIN s} :
                    \A i \in DOMAIN s : NumLeq(s[i], v)

\* risk_score.py lines 5-22
minmax_series_noGuard(s) ==
    IF s = <<>> THEN s
    ELSE LET min_v == SeriesMin(s)
             denom == NumSub(SeriesMax(s), min_v)
         IN  [i \in DOMAIN s |->
                IF denom = Exact(0, 1) THEN Exact(1, 1)
                ELSE DivEps(NumSub(s[i], min_v), denom)]

minmax_series(s) ==
    IF s = <<>> THEN s
    ELSE LET min_v == SeriesMin(s)
             max_v == SeriesMax(s)
             denom == NumSub(max_v, min_v)
         IN  IF denom = Exact(0, 1)
             THEN [i \in DOMAIN s |-> Exact(0, 1)]
             ELSE [i \in DOMAIN s |-> DivEps(NumSub(s[i], min_v), denom)]

\* the users, hosts and rows of the batches the model follows
BatchUsers == <<"u1", "u2", "u3">>

BatchHosts == <<"h1", "h2">>

\* a DataFrame: its columns and its rows, one record per row
Frame(columns, rows) == [status |-> "frame", columns |-> columns,
                         rows |-> rows]

\* the exception a stage raised
Raised(type, text) == [status |-> "raised", type |-> type, text |-> text]

\* a stage that has not run
NotRun == [status |-> "not run"]

\* feature_extractor.py line 44
AUTH_COLUMNS == {"user", "src_host", "dst_host", "timestamp", "success"}

FEATURE_COLUMNS == {"login_count", "failed_login_ratio", "unique_src_hosts",
                    "unique_dst_hosts"}

\* event k of the events a batch may hold: every user, source host,
\* destination host and outcome
EventNo(k) ==
    [user |-> BatchUsers[(k \div 8) + 1],
     src_host |-> BatchHosts[((k \div 4) % 2) + 1],
     dst_host |-> BatchHosts[((k \div 2) % 2) + 1],
     success |-> (k % 2 = 1)]

\* The batches export_to_auth_format may hand over (event_store.py lines
\* 197-242).  The order of the rows does not reach the features (groupby,
\* then sort_index), so each batch is drawn in one order of its rows.
AuthFrames ==
    {Frame(AUTH_COLUMNS, [i \in 1..Len(s) |-> EventNo(s[i])]) :
        s \in UNION {{f \in [1..k -> 0..(8 * Len(BatchUsers) - 1)] :
                        \A i \in 1..(k - 1) : f[i] <= f[i + 1]} :
                     k \in 0..MaxBatch}}

\* feature_extractor.py lines 47-61
validate_required_columns(df, required) ==
    IF required \subseteq df.columns THEN "ok" ELSE "ValueError"

\* the users of the rows, in the order sort_index leaves them (line 210)
SortedUsers(rows) ==
    SelectSeq(BatchUsers, LAMBDA u : \E i \in DOMAIN rows : rows[i].user = u)

\* lines 184-207, the row of one group
FeatureRow(rows, u) ==
    LET group == {i \in DOMAIN rows : rows[i].user = u}
        login_count == Cardinality(group)
        failed_count == Cardinality({i \in group : ~rows[i].success})
        ratio == Exact(failed_count, login_count)
        clipped == IF NumLt(ratio, Exact(0, 1)) THEN Exact(0, 1)
                   ELSE IF NumGt(ratio, Exact(1, 1)) THEN Exact(1, 1)
                   ELSE ratio
    IN  [user |-> u,
         login_count |-> login_count,
         failed_login_ratio |-> clipped,
         unique_src_hosts |->
            Cardinality({rows[i].src_host : i \in group}),
         unique_dst_hosts |->
            Cardinality({rows[i].dst_host : i \in group})]

\* feature_extractor.py lines 161-212
extract_user_features_allUsers(df) ==
    Frame(FEATURE_COLUMNS,
          [k \in 1..Len(BatchUsers) |->
              IF \E i \in DOMAIN df.rows : df.rows[i].user = BatchUsers[k]
              THEN FeatureRow(df.rows, BatchUsers[k])
              ELSE [user |-> BatchUsers[k], login_count |-> 0,
                    failed_login_ratio |-> Exact(0, 1),
                    unique_src_hosts |-> 0, unique_dst_hosts |-> 0]])

extract_user_features(df) ==
    IF validate_required_columns(df, AUTH_COLUMNS) # "ok"
    THEN Raised("ValueError",
                "Authentication data is missing required column(s)")
    ELSE LET users == SortedUsers(df.rows)
         IN  Frame(FEATURE_COLUMNS,
                   [k \in 1..Len(users) |-> FeatureRow(df.rows, users[k])])

\* ------------------------------------------------------------------------
\* isolation_forest.py lines 9-98.  The score of a row is what the fitted
\* forest gives it: the model does not compute the forest, it lets every
\* row have any of the levels 0..MaxAnomaly, rows with the same features
\* having the same level (the forest is a function of the scaled features,
\* random_state is fixed).
\* ------------------------------------------------------------------------
SameFeatures(a, b) ==
    /\ a.login_count = b.login_count
    /\ a.failed_login_ratio = b.failed_login_ratio
    /\ a.unique_src_hosts = b.unique_src_hosts
    /\ a.unique_dst_hosts = b.unique_dst_hosts

\* line 96: the assignments of anomaly scores to the rows
AnomalyScores(rows) ==
    {s \in [DOMAIN rows -> 0..MaxAnomaly] :
        \A i, j \in DOMAIN rows :
            SameFeatures(rows[i], rows[j]) => s[i] = s[j]}

\* what run_isolation_forest may return or raise
run_isolation_forest(frame) ==
    IF ~(FEATURE_COLUMNS \subseteq frame.columns)
    THEN {Raised("ValueError",
                 "Isolation Forest: missing required feature columns")}
    ELSE IF Len(frame.rows) = 0
    THEN {Raised("ValueError",
                 "Isolation Forest: input frame DataFrame is empty")}
    ELSE {Frame(frame.columns \cup {"anomaly_score"},
                [i \in DOMAIN frame.rows |->
                    [user |-> frame.rows[i].user,
                     login_count |-> frame.rows[i].login_count,
                     failed_login_ratio |->
                        frame.rows[i].failed_login_ratio,
                     unique_src_hosts |-> frame.rows[i].unique_src_hosts,
                     unique_dst_hosts |-> frame.rows[i].unique_dst_hosts,
                     anomaly_score |-> Exact(s[i], 1)]]) :
            s \in AnomalyScores(frame.rows)}

\* ------------------------------------------------------------------------
\* risk_score.py lines 25-164
\* ------------------------------------------------------------------------
RISK_COLUMNS == {"rule_based_score", "ml_anomaly_score", "final_risk_score",
                 "risk_reason"}

REASON_COMBINED == "Combined statistical anomaly and rule-based deviations"

REASON_BASELINE == "Behavior deviates significantly from historical baseline"

REASON_MULTIPLE ==
    "Multiple behavioral deviations detected (frequency, access pattern, failure rate)"

REASON_NONE == "No strong evidence of deviation"

REASON_SINGLE == "Single-user data: insufficient variation to assess deviation"

\* a cell of an object Series that holds no value yet
NA == "<NA>"

\* Series.fillna(value)
fillna(s, value) == [i \in DOMAIN s |-> IF s[i] = NA THEN value ELSE s[i]]

\* an optional Series argument: None, or the Series given
NoSeries == [given |-> FALSE, values |-> <<>>]

GivenSeries(values) == [given |-> TRUE, values |-> values]

\* the column c of df as floats; a column the frame lacks counts as zeros
\* (lines 101-104)
Column(df, c) ==
    [i \in DOMAIN df.rows |->
        IF c \notin df.columns THEN Exact(0, 1)
        ELSE IF c \in {"failed_login_ratio", "anomaly_score"}
        THEN df.rows[i][c]
        ELSE Exact(df.rows[i][c], 1)]

\* lines 113-115
WeightedRuleScore(failed_n, login_n, src_n, dst_n) ==
    NumAdd(NumAdd(NumAdd(NumScale(4, 10, failed_n), NumScale(2, 10, login_n)),
                  NumScale(2, 10, src_n)),
           NumScale(2, 10, dst_n))

\* line 129
BlendedScore_unequalWeights(ml, rb) ==
    NumAdd(NumScale(1, 2, ml), NumScale(4, 10, rb))

BlendedScore(ml, rb) == NumAdd(NumScale(1, 2, ml), NumScale(1, 2, rb))

\* lines 138-141
both_high_mask(ml, rb) ==
    NumGt(ml, Exact(7, 10)) /\ NumGt(rb, Exact(7, 10))

ml_dom_mask_noExclusion(ml, rb) ==
    NumGeq(ml, rb) /\ NumGt(ml, Exact(6, 10))

ml_dom_mask(ml, rb) ==
    NumGeq(ml, rb) /\ NumGt(ml, Exact(6, 10)) /\ ~both_high_mask(ml, rb)

rb_dom_mask(ml, rb) ==
    NumGt(rb, ml) /\ NumGt(rb, Exact(6, 10)) /\ ~both_high_mask(ml, rb)

low_mask(ml, rb) ==
    ~(both_high_mask(ml, rb) \/ ml_dom_mask(ml, rb) \/ rb_dom_mask(ml, rb))

\* lines 136-148, for one row: the four assignments in the order of the
\* code, a later one overwriting an earlier one
ReasonOf(ml, rb) ==
    LET r0 == NA
        r1 == IF both_high_mask(ml, rb) THEN REASON_COMBINED ELSE r0
        r2 == IF ml_dom_mask(ml, rb) THEN REASON_BASELINE ELSE r1
        r3 == IF rb_dom_mask(ml, rb) THEN REASON_MULTIPLE ELSE r2
    IN  IF low_mask(ml, rb) THEN REASON_NONE ELSE r3

\* lines 148 and 156-162: the reasons still missing are filled in, first
\* with the general text, then, for a frame of one row, with the
\* single-user text
risk_reason(ml, rb) ==
    LET reason_series == [i \in DOMAIN ml |-> ReasonOf(ml[i], rb[i])]
        filled == fillna(reason_series, REASON_NONE)
    IN  IF Len(ml) = 1 THEN fillna(filled, REASON_SINGLE) ELSE filled

\* lines 64-95 and 116-126: an optional Series argument, normalised; an
\* empty Series counts as zeros
NormalisedArgument(df, series) ==
    IF series.values = <<>>
    THEN [i \in DOMAIN df.rows |-> Exact(0, 1)]
    ELSE minmax_series(series.values)

\* line 164: sort_values("final_risk_score", ascending=False); rows of
\* equal score may come in any order
SortedByRisk(rows) ==
    {sorted \in {[i \in DOMAIN rows |-> rows[p[i]]] :
                    p \in {q \in [DOMAIN rows -> DOMAIN rows] :
                            \A i, j \in DOMAIN rows : i # j => q[i] # q[j]}} :
        \A i \in 1..(Len(sorted) - 1) :
            NumGeq(sorted[i].final_risk_score, sorted[i + 1].final_risk_score)}

\* what compute_risk_score may return or raise.  The arguments
\* rule_based_score and ml_anomaly_score, where given, have the index of df
\* or are empty.  A row of the result is shown by its user and the columns
\* added.
compute_risk_score(df, rule_based_score, ml_anomaly_score) ==
    IF Len(df.rows) = 0
    THEN {Frame(df.columns \cup RISK_COLUMNS, <<>>)}
    ELSE IF ~ml_anomaly_score.given /\ "anomaly_score" \notin df.columns
    THEN {Raised("ValueError",
                 "compute_risk_score: 'anomaly_score' column is required when ml_anomaly_score is not provided")}
    ELSE
        LET ml == IF ml_anomaly_score.given
                  THEN NormalisedArgument(df, ml_anomaly_score)
                  ELSE minmax_series(Column(df, "anomaly_score"))
            failed_n == minmax_series(Column(df, "failed_login_ratio"))
            login_n == minmax_series(Column(df, "login_count"))
            src_n == minmax_series(Column(df, "unique_src_hosts"))
            dst_n == minmax_series(Column(df, "unique_dst_hosts"))
            rb == IF rule_based_score.given
                  THEN NormalisedArgument(df, rule_based_score)
                  ELSE [i \in DOMAIN df.rows |->
                          WeightedRuleScore(failed_n[i], login_n[i],
                                            src_n[i], dst_n[i])]
            reason == risk_reason(ml, rb)
            out == [i \in DOMAIN df.rows |->
                      [user |-> df.rows[i].user,
                       rule_based_score |-> rb[i],
                       ml_anomaly_score |-> ml[i],
                       final_risk_score |-> BlendedScore(ml[i], rb[i]),
                       risk_reason |-> reason[i]]]
        IN  {Frame(df.columns \cup RISK_COLUMNS, sorted) :
                sorted \in SortedByRisk(out)}

\* ------------------------------------------------------------------------
\* The scheduler's lifecycle, scheduler.py lines 22-25 and 170-220
\* ------------------------------------------------------------------------
\* the request threads that call start_scheduler and stop_scheduler (POST
\* /api/pipeline/auto-start and auto-stop, api_server.py lines 1135-1159)
Callers == {"c1", "c2"}

NoCall == [op |-> "none", pc |-> "idle", result |-> "none"]

\* a loop thread as threading.Thread(target=_scheduler_loop, ...) starts it
\* (lines 199-206): at the test of the while loop.  The length of the
\* interval (interval_minutes * 60 rounds of one second) is not followed:
\* a thread is in its for loop for as long as it stays at pc "sleep".
NewLoop == [pc |-> "test", count |-> 0]

\* lines 22-25
InitScheduler ==
    /\ scheduler_running = FALSE
    /\ scheduler_lock = NoThread
    /\ scheduler_threads = <<>>
    /\ lifecycle = [c \in Callers |-> NoCall]

\* the lifecycle touches nothing but the module globals of scheduler.py
StoresUnchanged ==
    UNCHANGED <<user_states, state_transitions, txn, wlock, stack, deploy,
                accepted, syncs, clock, timestamps, query, risk_frame,
                training_actions, email_events, email_interactions,
                training_sessions, behavioral_events, pipeline_runs,
                final_csv, handler, scorevars>>

SchedulerUnchanged == StoresUnchanged /\ UNCHANGED last_event_count

\* `with _scheduler_lock:` (lines 195, 216) entered without waiting for
\* the lock
acquire_noLock(c) ==
    scheduler_lock' = c
\* `with _scheduler_lock:` (lines 195, 216): the caller waits until the lock
\* is free and takes it
acquire(c) ==
    /\ scheduler_lock = NoThread
    /\ scheduler_lock' = c

\* leaving the with block, by return
release(c) ==
    scheduler_lock' = IF scheduler_lock = c THEN NoThread ELSE scheduler_lock

\* start_scheduler line 195
start_scheduler(c) ==
    /\ lifecycle[c] = NoCall
    /\ Len(scheduler_threads) < MaxLoops
    /\ acquire(c)
    /\ lifecycle' = [lifecycle EXCEPT ![c] = [op |-> "start", pc |-> "test",
                                              result |-> "none"]]
    /\ UNCHANGED <<scheduler_running, scheduler_threads>>
    /\ SchedulerUnchanged

\* start_scheduler lines 196-197
start_scheduler_test(c) ==
    /\ lifecycle[c].op = "start"
    /\ lifecycle[c].pc = "test"
    /\ IF scheduler_running
       THEN /\ lifecycle' = [lifecycle EXCEPT ![c].pc = "return",
                                              ![c].result = "False"]
            /\ release(c)
       ELSE /\ lifecycle' = [lifecycle EXCEPT ![c].pc = "set"]
            /\ UNCHANGED scheduler_lock
    /\ UNCHANGED <<scheduler_running, scheduler_threads>>
    /\ SchedulerUnchanged

\* start_scheduler lines 199-207
start_scheduler_spawn(c) ==
    /\ lifecycle[c].op = "start"
    /\ lifecycle[c].pc = "set"
    /\ scheduler_running' = TRUE
    /\ scheduler_threads' = Append(scheduler_threads, NewLoop)
    /\ release(c)
    /\ lifecycle' = [lifecycle EXCEPT ![c].pc = "return",
                                      ![c].result = "True"]
    /\ SchedulerUnchanged

\* stop_scheduler line 216
stop_scheduler(c) ==
    /\ lifecycle[c] = NoCall
    /\ acquire(c)
    /\ lifecycle' = [lifecycle EXCEPT ![c] = [op |-> "stop", pc |-> "test",
                                              result |-> "none"]]
    /\ UNCHANGED <<scheduler_running, scheduler_threads>>
    /\ SchedulerUnchanged

\* stop_scheduler lines 217-218
stop_scheduler_test(c) ==
    /\ lifecycle[c].op = "stop"
    /\ lifecycle[c].pc = "test"
    /\ IF ~scheduler_running
       THEN /\ lifecycle' = [lifecycle EXCEPT ![c].pc = "return",
                                              ![c].result = "False"]
            /\ release(c)
       ELSE /\ lifecycle' = [lifecycle EXCEPT ![c].pc = "set"]
            /\ UNCHANGED scheduler_lock
    /\ UNCHANGED <<scheduler_running, scheduler_threads>>
    /\ SchedulerUnchanged

\* stop_scheduler lines 219-220
stop_scheduler_clear(c) ==
    /\ lifecycle[c].op = "stop"
    /\ lifecycle[c].pc = "set"
    /\ scheduler_running' = FALSE
    /\ release(c)
    /\ lifecycle' = [lifecycle EXCEPT ![c].pc = "return",
                                      ![c].result = "True"]
    /\ UNCHANGED scheduler_threads
    /\ SchedulerUnchanged

\* the route answers with what the call returned (api_server.py lines
\* 1144-1147 and 1156-1159)
lifecycle_return(c) ==
    /\ lifecycle[c].pc = "return"
    /\ lifecycle' = [lifecycle EXCEPT ![c] = NoCall]
    /\ UNCHANGED <<scheduler_running, scheduler_lock, scheduler_threads>>
    /\ SchedulerUnchanged

LoopAt(k, pc) == k \in DOMAIN scheduler_threads /\ scheduler_threads[k].pc = pc

\* _scheduler_loop line 175 with the flag read as TRUE whatever it holds
scheduler_loop_test_ignoreFlag(k) ==
    /\ LoopAt(k, "test")
    /\ scheduler_threads' = [scheduler_threads EXCEPT ![k].pc = "call"]
    /\ UNCHANGED <<scheduler_running, scheduler_lock, lifecycle>>
    /\ SchedulerUnchanged
\* _scheduler_loop line 175: the flag is read, without the lock; line 183
\* when it is false
scheduler_loop_test(k) ==
    /\ LoopAt(k, "test")
    /\ scheduler_threads' = [scheduler_threads EXCEPT
                               ![k].pc = IF scheduler_running THEN "call"
                                         ELSE "exited"]
    /\ UNCHANGED <<scheduler_running, scheduler_lock, lifecycle>>
    /\ SchedulerUnchanged

\* _scheduler_loop line 176 and _run_pipeline_cycle lines 42-49: the
\* cycle counts the stored events and returns when there is no new one
scheduler_loop_call(k) ==
    /\ LoopAt(k, "call")
    /\ LET current_count == TotalEvents
       IN scheduler_threads' =
            IF current_count <= last_event_count
            THEN [scheduler_threads EXCEPT ![k].pc = "sleep"]
            ELSE [scheduler_threads EXCEPT ![k].pc = "note",
                                           ![k].count = current_count]
    /\ UNCHANGED <<scheduler_running, scheduler_lock, lifecycle>>
    /\ SchedulerUnchanged

\* _run_pipeline_cycle lines 51-53: _last_event_count = current_count
scheduler_loop_note(k) ==
    /\ LoopAt(k, "note")
    /\ last_event_count' = scheduler_threads[k].count
    /\ scheduler_threads' = [scheduler_threads EXCEPT ![k].pc = "cycle",
                                                      ![k].count = 0]
    /\ UNCHANGED <<scheduler_running, scheduler_lock, lifecycle>>
    /\ StoresUnchanged

\* _run_pipeline_cycle lines 56-167: the run, which completes or fails and
\* does not touch the module's globals again (its steps are
\* pipeline_compute and auto_send_loop); the for loop of line 178 begins
scheduler_loop_cycle_end(k) ==
    /\ LoopAt(k, "cycle")
    /\ scheduler_threads' = [scheduler_threads EXCEPT ![k].pc = "sleep"]
    /\ UNCHANGED <<scheduler_running, scheduler_lock, lifecycle>>
    /\ SchedulerUnchanged

\* _scheduler_loop lines 178-181: the for loop is left, its rounds used up
\* or the flag read as false
scheduler_loop_sleep(k) ==
    /\ LoopAt(k, "sleep")
    /\ scheduler_threads' = [scheduler_threads EXCEPT ![k].pc = "test"]
    /\ UNCHANGED <<scheduler_running, scheduler_lock, lifecycle>>
    /\ SchedulerUnchanged

\* a step of caller c inside a call
CallStep(c) ==
    \/ start_scheduler_test(c)
    \/ start_scheduler_spawn(c)
    \/ stop_scheduler_test(c)
    \/ stop_scheduler_clear(c)
    \/ lifecycle_return(c)

\* a step of loop thread k
LoopStep(k) ==
    \/ scheduler_loop_test(k)
    \/ scheduler_loop_call(k)
    \/ scheduler_loop_note(k)
    \/ scheduler_loop_cycle_end(k)
    \/ scheduler_loop_sleep(k)

\* the scoring stages have no caller
InitNoScoring ==
    /\ auth_df = NotRun
    /\ features = NotRun
    /\ anomalies = NotRun
    /\ score_args = [rule_based_score |-> NoSeries,
                     ml_anomaly_score |-> NoSeries]
    /\ results = NotRun

\* decide_training_actions has no caller
InitNoDecision ==
    /\ risk_frame = NoFrame
    /\ training_actions = NotCalled
    /\ InitNoScoring
    /\ InitScheduler

\* several request threads (Flask serves each request on its own thread)
Init ==
    /\ InitDb
    /\ deploy = [workers |-> Threads, users |-> Users, rows |-> MaxRowsConc,
                 runs |-> MaxRuns]
    /\ InitNoDecision

\* one thread: calls never overlap
InitSeq ==
    /\ InitDb
    /\ deploy = [workers |-> {"t1"}, users |-> Users, rows |-> MaxRowsSeq,
                 runs |-> MaxRuns]
    /\ InitNoDecision

\* several request threads, all calls about the same user
InitRace ==
    /\ InitDb
    /\ deploy = [workers |-> Threads, users |-> {"u1"}, rows |-> MaxRowsRace,
                 runs |-> MaxRuns]
    /\ InitNoDecision

\* ------------------------------------------------------------------------
\* transition(user_id, trigger, reason), step by step.  A step ends where
\* the thread next touches the database other threads see.
\* ------------------------------------------------------------------------
\* a caller enters transition(); the result of a query the thread made
\* before is gone
Call(t, u, trig) ==
    /\ t \in deploy.workers
    /\ u \in deploy.users
    /\ stack[t] = <<>>
    /\ Fits
    /\ stack' = [stack EXCEPT ![t] =
                   <<NewFrame(u, trig, CallerReason,
                              Len(RowsOf(state_transitions, u)))>>]
    /\ UNCHANGED <<user_states, state_transitions, txn, wlock, deploy, decidevars,
                   accepted, syncs>>
    /\ UNCHANGED appvars
    /\ query' = [query EXCEPT ![t] = NoQuery]
    /\ UNCHANGED <<clock, timestamps>>

\* lines 163-179: read the state, test the table, reject or pick new_state
\* and read the clock (line 178)
GetState(t) ==
    /\ AtPc(t, "get_state")
    /\ LET f == Top(t)
           current == get_state(user_states, f.user_id)
           key == <<current, f.trigger>>
       IN IF key \notin DOMAIN TRANSITIONS
          THEN /\ stack' = SetTop(t, [f EXCEPT !.current = current,
                                               !.new_state = current,
                                               !.success = FALSE,
                                               !.pc = "done"])
               /\ UNCHANGED accepted
          ELSE /\ stack' = SetTop(t, [f EXCEPT !.current = current,
                                               !.new_state = TRANSITIONS[key],
                                               !.now = clock,
                                               !.pc = "write"])
               /\ accepted' = accepted + 1
    /\ UNCHANGED <<user_states, state_transitions, txn, wlock, deploy,
                 decidevars, syncs>>
    /\ UNCHANGED appvars
    /\ UNCHANGED <<clock, timestamps, query>>

\* Write whose audit row takes new_state for from_state
Write_logsTargetAsFrom(t) ==
    /\ AtPc(t, "write")
    /\ wlock = NoThread
    /\ LET f == Top(t)
           row == [user_id |-> f.user_id, from_state |-> f.new_state,
                   to_state |-> f.new_state, trigger |-> f.trigger,
                   reason |-> f.reason]
       IN /\ txn' = [txn EXCEPT ![t] = [open |-> TRUE,
                                        row |-> <<f.user_id, f.new_state>>,
                                        log |-> <<row>>]]
          /\ user_states' = UpsertVisible(user_states, f.user_id, f.new_state)
          /\ state_transitions' = LogVisible(state_transitions, row)
          /\ stack' = SetTop(t, [f EXCEPT !.pc = "commit"])
    /\ wlock' = t
    /\ UNCHANGED <<deploy, decidevars, accepted, syncs>>
    /\ UNCHANGED appvars
    /\ UNCHANGED <<clock, timestamps, query>>

\* lines 181-195: the upsert opens the transaction and takes the write
\* lock (while another connection holds it the statement waits); the audit
\* row is inserted in the same transaction
Write(t) ==
    /\ AtPc(t, "write")
    /\ wlock = NoThread
    /\ LET f == Top(t)
           row == [user_id |-> f.user_id, from_state |-> f.current,
                   to_state |-> f.new_state, trigger |-> f.trigger,
                   reason |-> f.reason]
       IN /\ txn' = [txn EXCEPT ![t] = [open |-> TRUE,
                                        row |-> <<f.user_id, f.new_state>>,
                                        log |-> <<row>>]]
          /\ user_states' = UpsertVisible(user_states, f.user_id, f.new_state)
          /\ state_transitions' = LogVisible(state_transitions, row)
          /\ stack' = SetTop(t, [f EXCEPT !.pc = "commit"])
    /\ wlock' = t
    /\ UNCHANGED <<deploy, decidevars, accepted, syncs>>
    /\ UNCHANGED appvars
    /\ UNCHANGED <<clock, timestamps, query>>

\* line 196: commit
Commit(t) ==
    /\ AtPc(t, "commit")
    /\ user_states' = CommitRows(user_states, txn[t])
    /\ state_transitions' = CommitLog(state_transitions, txn[t])
    /\ txn' = [txn EXCEPT ![t] = NoTxn]
    /\ wlock' = NoThread
    /\ timestamps' = Append(timestamps, Top(t).now)
    /\ stack' = SetTop(t, [Top(t) EXCEPT !.pc = "sync"])
    /\ UNCHANGED <<deploy, decidevars, accepted, syncs>>
    /\ UNCHANGED appvars
    /\ UNCHANGED <<clock, query>>

\* lines 198-222: the mirror, the result dictionary, the auto-chain tests
\* up to a chained call.  An exception that left _sync_to_firestore would
\* unwind every activation of the call.
Sync(t) ==
    /\ AtPc(t, "sync")
    /\ \E outcome \in MirrorOutcomes :
         IF sync_to_firestore(outcome) = "returned"
         THEN LET stk == [stack[t] EXCEPT ![Len(stack[t])].mirror = outcome,
                                          ![Len(stack[t])].success = TRUE]
                  nxt == Continue(stk, 1)
              IN /\ Len(nxt) <= MaxDepth
                 /\ stack' = [stack EXCEPT ![t] = nxt]
         ELSE stack' = [stack EXCEPT ![t] =
                          <<[stack[t][1] EXCEPT !.mirror = outcome,
                                                !.success = FALSE,
                                                !.pc = "raised"]>>]
    /\ syncs' = syncs + 1
    /\ UNCHANGED <<user_states, state_transitions, txn, wlock, deploy, decidevars,
                   accepted>>
    /\ UNCHANGED appvars
    /\ UNCHANGED <<clock, timestamps, query>>

\* ReturnChained whose caller returns the chained call's to_state as its own
ReturnChained_takesResult(t) ==
    /\ AtPc(t, "done")
    /\ Len(stack[t]) > 1
    /\ LET stk == [SubSeq(stack[t], 1, Len(stack[t]) - 1) EXCEPT
                    ![Len(stack[t]) - 1].new_state = Top(t).new_state]
           nxt == Continue(stk, stk[Len(stk)].resume)
       IN /\ Len(nxt) <= MaxDepth
          /\ stack' = [stack EXCEPT ![t] = nxt]
    /\ UNCHANGED <<user_states, state_transitions, txn, wlock, deploy, decidevars,
                   accepted, syncs>>
    /\ UNCHANGED appvars
    /\ UNCHANGED <<clock, timestamps, query>>

\* line 224 (or 168) of a chained activation: back in the activation that
\* made the call, which ignores the result and goes on with its tests
ReturnChained(t) ==
    /\ AtPc(t, "done")
    /\ Len(stack[t]) > 1
    /\ LET stk == SubSeq(stack[t], 1, Len(stack[t]) - 1)
           nxt == Continue(stk, stk[Len(stk)].resume)
       IN /\ Len(nxt) <= MaxDepth
          /\ stack' = [stack EXCEPT ![t] = nxt]
    /\ UNCHANGED <<user_states, state_transitions, txn, wlock, deploy, decidevars,
                   accepted, syncs>>
    /\ UNCHANGED appvars
    /\ UNCHANGED <<clock, timestamps, query>>

\* line 224 (or 168) of the outermost activation: the caller has the
\* result; an exception reaches the caller the same way
Return(t) ==
    /\ \/ AtPc(t, "done") /\ Len(stack[t]) = 1
       \/ AtPc(t, "raised")
    /\ stack' = [stack EXCEPT ![t] = <<>>]
    /\ UNCHANGED <<user_states, state_transitions, txn, wlock, deploy, decidevars,
                   accepted, syncs>>
    /\ UNCHANGED appvars
    /\ UNCHANGED <<clock, timestamps, query>>

Next ==
    \/ \E t \in Threads, u \in Users, trig \in Triggers : Call(t, u, trig)
    \/ \E t \in Threads : GetState(t)
    \/ \E t \in Threads : Write(t)
    \/ \E t \in Threads : Commit(t)
    \/ \E t \in Threads : Sync(t)
    \/ \E t \in Threads : ReturnChained(t)
    \/ \E t \in Threads : Return(t)

\* calls of several threads interleave
Spec == Init /\ [][Next]_vars

\* calls never overlap
SpecSeq == InitSeq /\ [][Next]_vars

\* calls of several threads about one user interleave
SpecRace == InitRace /\ [][Next]_vars

\* a step of the call thread t is in
ThreadStep(t) ==
    \/ GetState(t)
    \/ Write(t)
    \/ Commit(t)
    \/ Sync(t)
    \/ ReturnChained(t)
    \/ Return(t)

\* calls never overlap, and a thread inside transition() goes on running
SpecSeqFair == SpecSeq /\ \A t \in Threads : WF_vars(ThreadStep(t))

\* ------------------------------------------------------------------------
\* The queries, user_state.py lines 123-150, and the clock
\* ------------------------------------------------------------------------
\* time passes: datetime.utcnow() returns a later value
Tick ==
    /\ clock < MaxClock
    /\ clock' = clock + 1
    /\ UNCHANGED <<user_states, state_transitions, txn, wlock, stack, deploy,
                 decidevars,
                   accepted, syncs, timestamps, query>>
    /\ UNCHANGED appvars

\* rowids of the user's audit rows (WHERE user_id = ?)
UserRowIds(log, user_id) == {i \in DOMAIN log : log[i].user_id = user_id}

\* lines 141-149: the dictionary made of one selected row
HistoryEntry(log, stamps, i) ==
    [from_state |-> log[i].from_state, to_state |-> log[i].to_state,
     trigger |-> log[i].trigger, reason |-> log[i].reason,
     timestamp |-> stamps[i]]

Min(a, b) == IF a <= b THEN a ELSE b

\* lines 136-140: ORDER BY timestamp DESC LIMIT ?.  Rows with equal
\* timestamps may come in any order: the statement names no other key.
get_history_results(log, stamps, user_id, limit) ==
    LET ids == UserRowIds(log, user_id)
        n == Cardinality(ids)
        orders == {p \in [1..n -> ids] :
                     /\ \A j, k \in 1..n : j # k => p[j] # p[k]
                     /\ \A k \in 1..(n - 1) :
                           stamps[p[k]] >= stamps[p[k + 1]]}
    IN {[k \in 1..Min(limit, n) |-> HistoryEntry(log, stamps, p[k])] :
          p \in orders}

\* a thread outside transition() calls get_history(user_id, limit)
get_history(t, user_id, limit) ==
    /\ t \in deploy.workers
    /\ user_id \in deploy.users
    /\ stack[t] = <<>>
    /\ \E r \in get_history_results(state_transitions, timestamps,
                                     user_id, limit) :
          query' = [query EXCEPT ![t] =
                      [op |-> "get_history", user_id |-> user_id,
                       limit |-> limit, result |-> r]]
    /\ UNCHANGED <<user_states, state_transitions, txn, wlock, stack, deploy,
                 decidevars,
                   accepted, syncs, clock, timestamps>>
    /\ UNCHANGED appvars

\* state_distribution without the zero-filled dictionary of line 125
state_distribution_noZeroFill(rows) ==
    LET present == {rows[u] : u \in Users} \ {NoRow}
    IN [s \in present |-> Cardinality({u \in Users : rows[u] = s})]

\* lines 125-132: every state starts at 0; each group of the GROUP BY
\* whose state is a key of the dictionary overwrites its entry
state_distribution(rows) ==
    LET present == {rows[u] : u \in Users} \ {NoRow}
        count(s) == Cardinality({u \in Users : rows[u] = s})
    IN [s \in STATES |-> IF s \in present THEN count(s) ELSE 0]

\* a thread outside transition() calls get_state_distribution()
get_state_distribution(t) ==
    /\ t \in deploy.workers
    /\ stack[t] = <<>>
    /\ query' = [query EXCEPT ![t] =
                   [op |-> "get_state_distribution", user_id |-> "",
                    limit |-> 0, result |-> state_distribution(user_states)]]
    /\ UNCHANGED <<user_states, state_transitions, txn, wlock, stack, deploy,
                 decidevars,
                   accepted, syncs, clock, timestamps>>
    /\ UNCHANGED appvars

NextQuery ==
    \/ Next
    \/ Tick
    \/ \E t \in Threads, u \in Users, limit \in 0..MaxLimit :
          get_history(t, u, limit)
    \/ \E t \in Threads : get_state_distribution(t)

\* calls and queries of one thread, while time passes
InitQuery ==
    /\ InitDb
    /\ deploy = [workers |-> {"t1"}, users |-> Users, rows |-> MaxRowsQuery,
                 runs |-> MaxRuns]
    /\ InitNoDecision

SpecQuery == InitQuery /\ [][NextQuery]_vars

\* the state transition() works on, apart from the calling thread's stack
dbvars == <<user_states, state_transitions, txn, wlock, deploy, decidevars, accepted,
            syncs, clock, timestamps, query>>

\* ------------------------------------------------------------------------
\* POST /api/email/send, api_server.py lines 710-753
\* ------------------------------------------------------------------------
\* lines 727-735: the pending-training test; nothing else is tested
send_email(t, user_id) ==
    /\ Free(t)
    /\ user_id \in deploy.users
    /\ Fits
    /\ IF HasPendingTraining(training_sessions, user_id)
       THEN SetHandler(t, Respond([Idle EXCEPT !.name = "send_email",
                                               !.user = user_id], 409))
       ELSE /\ EmailsFit(1)
            /\ SetHandler(t, [Idle EXCEPT !.name = "send_email",
                                          !.pc = "dispatch",
                                          !.user = user_id])
    /\ UNCHANGED <<email_events, email_interactions, training_sessions,
                   behavioral_events, pipeline_runs, final_csv,
                   last_event_count>>
    /\ UNCHANGED libvars

\* _send_email_to_user lines 632-677 (and scheduler.py lines 114-146): the
\* email is dispatched and logged, then transition(user, "email_sent") is
\* called
Dispatch(t) ==
    /\ handler[t].pc = "dispatch"
    /\ stack[t] = <<>>
    /\ email_events' = LogEmailSent(email_events, handler[t].user,
                          IF handler[t].name = "scheduler_cycle"
                          THEN "auto_scheduler" ELSE "mode")
    /\ EnterTransition(t, handler[t].user, HandlerTrigger[handler[t].name])
    /\ SetHandler(t, [handler[t] EXCEPT !.pc = "in_transition",
                                        !.token = Len(email_events) + 1])
    /\ UNCHANGED <<email_interactions, training_sessions, behavioral_events,
                   pipeline_runs, final_csv, last_event_count>>
    /\ UNCHANGED dbvars

\* lines 678-692 and 753: the result of transition() is not looked at
send_email_return(t) ==
    /\ HandlerAt(t, {"send_email"}, "in_transition")
    /\ Returned(t)
    /\ stack' = [stack EXCEPT ![t] = <<>>]
    /\ SetHandler(t, Respond(handler[t],
                             IF AtPc(t, "raised") THEN 500 ELSE 200))
    /\ UNCHANGED <<email_events, email_interactions, training_sessions,
                   behavioral_events, pipeline_runs, final_csv,
                   last_event_count>>
    /\ UNCHANGED dbvars

\* the response leaves; the thread is free for the next request
respond(t) ==
    /\ handler[t].pc = "respond"
    /\ SetHandler(t, Idle)
    /\ UNCHANGED <<email_events, email_interactions, training_sessions,
                   behavioral_events, pipeline_runs, final_csv,
                   last_event_count>>
    /\ UNCHANGED libvars

\* ------------------------------------------------------------------------
\* POST /api/email/send-auto, api_server.py lines 756-799
\* ------------------------------------------------------------------------
\* lines 769-780: the csv is read and filtered by the threshold
send_email_auto(t, threshold) ==
    /\ Free(t)
    /\ Fits
    /\ IF ~final_csv.exists
       THEN SetHandler(t, Respond([Idle EXCEPT !.name = "send_email_auto"],
                                  400))
       ELSE LET todo == UsersOf(HighRisk(final_csv.rows, threshold))
            IN /\ EmailsFit(Len(todo))
               /\ SetHandler(t, [Idle EXCEPT !.name = "send_email_auto",
                                             !.pc = "loop",
                                             !.todo = todo])
    /\ UNCHANGED <<email_events, email_interactions, training_sessions,
                   behavioral_events, pipeline_runs, final_csv,
                   last_event_count>>
    /\ UNCHANGED libvars

\* One turn of an auto-send loop: api_server.py lines 782-791 and 471-483,
\* scheduler.py lines 101-112.  Every loop skips a user with pending
\* training; the scheduler's loop also skips a user whose state is neither
\* CLEAN nor COMPLIANT.  After the last row the handler responds; the
\* scheduler cycle just ends.
auto_send_loop(t) ==
    /\ HandlerAt(t, {"send_email_auto", "pipeline_run", "scheduler_cycle"},
                 "loop")
    /\ LET h == handler[t]
       IN IF h.todo = <<>>
          THEN SetHandler(t, Respond(h, IF h.name = "scheduler_cycle"
                                        THEN 0 ELSE 200))
          ELSE LET user_id == Head(h.todo)
                   skip ==
                     \/ HasPendingTraining(training_sessions, user_id)
                     \/ /\ h.name = "scheduler_cycle"
                        /\ get_state(user_states, user_id)
                               \notin {"CLEAN", "COMPLIANT"}
               IN SetHandler(t, [h EXCEPT !.todo = Tail(h.todo),
                                          !.user = user_id,
                                          !.pc = IF skip THEN "loop"
                                                 ELSE "dispatch"])
    /\ UNCHANGED <<email_events, email_interactions, training_sessions,
                   behavioral_events, pipeline_runs, final_csv,
                   last_event_count>>
    /\ UNCHANGED libvars

\* back in the loop after _send_email_to_user; in the scheduler an
\* exception of the dispatch is caught in the loop (lines 154-155), in a
\* request handler it ends the request, and POST /api/pipeline/run records
\* its run as failed (lines 500-506)
auto_send_return(t) ==
    /\ HandlerAt(t, {"send_email_auto", "pipeline_run", "scheduler_cycle"},
                 "in_transition")
    /\ Returned(t)
    /\ stack' = [stack EXCEPT ![t] = <<>>]
    /\ IF AtPc(t, "raised") /\ handler[t].name # "scheduler_cycle"
       THEN SetHandler(t, Respond(handler[t], 500))
       ELSE SetHandler(t, [handler[t] EXCEPT !.pc = "loop"])
    /\ pipeline_runs' = IF AtPc(t, "raised") /\ handler[t].name = "pipeline_run"
                        THEN [pipeline_runs EXCEPT
                                ![handler[t].run].status = "failed"]
                        ELSE pipeline_runs
    /\ UNCHANGED <<email_events, email_interactions, training_sessions,
                   behavioral_events, final_csv, last_event_count>>
    /\ UNCHANGED dbvars

\* ------------------------------------------------------------------------
\* POST /api/collect, api_server.py lines 322-372
\* ------------------------------------------------------------------------
\* a batch of events of one user is stored (event_store.py lines 95-128);
\* the model counts a batch as one event
collect_events(t, user_id) ==
    /\ Free(t)
    /\ user_id \in deploy.users
    /\ TotalEvents < MaxEvents
    /\ wlock = NoThread
    /\ behavioral_events' = [behavioral_events EXCEPT ![user_id] = @ + 1]
    /\ SetHandler(t, Respond([Idle EXCEPT !.name = "collect_events",
                                          !.user = user_id], 200))
    /\ UNCHANGED <<email_events, email_interactions, training_sessions,
                   pipeline_runs, final_csv, last_event_count>>
    /\ UNCHANGED libvars

\* ------------------------------------------------------------------------
\* POST /api/pipeline/run, api_server.py lines 417-506
\* ------------------------------------------------------------------------
\* lines 427-437: no events, no run; else the run is recorded as started
run_pipeline_from_collected(t) ==
    /\ Free(t)
    /\ Fits
    /\ IF UsersWithEvents = {}
       THEN /\ SetHandler(t, Respond([Idle EXCEPT !.name = "pipeline_run"],
                                     400))
            /\ UNCHANGED pipeline_runs
       ELSE /\ Len(pipeline_runs) < deploy.runs
            /\ EmailsFit(Cardinality(deploy.users))
            /\ wlock = NoThread
            /\ pipeline_runs' = Append(pipeline_runs, [status |-> "running"])
            /\ SetHandler(t, [Idle EXCEPT !.name = "pipeline_run",
                                          !.pc = "compute",
                                          !.run = Len(pipeline_runs) + 1])
    /\ UNCHANGED <<email_events, email_interactions, training_sessions,
                   behavioral_events, final_csv, last_event_count>>
    /\ UNCHANGED libvars

\* the table opened for writing before the stages have run
pipeline_compute_writeFirst(t) ==
    /\ HandlerAt(t, {"pipeline_run", "scheduler_cycle"}, "compute")
    /\ wlock = NoThread
    /\ LET h == handler[t]
       IN \/ \E tbl \in ScoreTables(UsersWithEvents) :
               /\ final_csv' = CsvFile(tbl)
               /\ pipeline_runs' = [pipeline_runs EXCEPT
                                      ![h.run].status = "completed"]
               /\ SetHandler(t, [h EXCEPT !.pc = "loop",
                                          !.todo = UsersOf(HighRisk(tbl,
                                                     RISK_THRESHOLD_EMAIL))])
          \/ /\ final_csv' = CsvFile(<<>>)
             /\ pipeline_runs' = IF h.name = "pipeline_run"
                                 THEN [pipeline_runs EXCEPT
                                         ![h.run].status = "failed"]
                                 ELSE pipeline_runs
             /\ SetHandler(t, Respond(h, IF h.name = "pipeline_run"
                                         THEN 500 ELSE 0))
    /\ UNCHANGED <<email_events, email_interactions, training_sessions,
                   behavioral_events, last_event_count>>
    /\ UNCHANGED libvars

\* lines 439-472 (scheduler.py lines 65-102): features, isolation forest and
\* scores; the csv is written, the run recorded as completed and the rows
\* at or above RISK_THRESHOLD_EMAIL are picked.  An exception on the way
\* is recorded as a failed run by the request handler (lines 500-506); the
\* scheduler only logs it (scheduler.py lines 166-167).
pipeline_compute(t) ==
    /\ HandlerAt(t, {"pipeline_run", "scheduler_cycle"}, "compute")
    /\ wlock = NoThread
    /\ LET h == handler[t]
       IN \/ \E tbl \in ScoreTables(UsersWithEvents) :
               /\ final_csv' = CsvFile(tbl)
               /\ pipeline_runs' = [pipeline_runs EXCEPT
                                      ![h.run].status = "completed"]
               /\ SetHandler(t, [h EXCEPT !.pc = "loop",
                                          !.todo = UsersOf(HighRisk(tbl,
                                                     RISK_THRESHOLD_EMAIL))])
          \/ /\ UNCHANGED final_csv
             /\ pipeline_runs' = IF h.name = "pipeline_run"
                                 THEN [pipeline_runs EXCEPT
                                         ![h.run].status = "failed"]
                                 ELSE pipeline_runs
             /\ SetHandler(t, Respond(h, IF h.name = "pipeline_run"
                                         THEN 500 ELSE 0))
    /\ UNCHANGED <<email_events, email_interactions, training_sessions,
                   behavioral_events, last_event_count>>
    /\ UNCHANGED libvars

\* ------------------------------------------------------------------------
\* _run_pipeline_cycle, scheduler.py lines 28-167
\* ------------------------------------------------------------------------
\* the one thread start_scheduler creates (scheduler.py lines 195-205: a
\* second start returns False while _scheduler_running); its loop calls
\* the cycles one after the other
SchedulerThread == "t1"

\* lines 42-63: the cycle runs only when events were stored since the last
\* run; it notes the count and records the run as started
run_pipeline_cycle(t) ==
    /\ t = SchedulerThread
    /\ Free(t)
    /\ Fits
    /\ IF TotalEvents <= last_event_count
       THEN /\ SetHandler(t, Respond([Idle EXCEPT !.name = "scheduler_cycle"],
                                     0))
            /\ UNCHANGED <<pipeline_runs, last_event_count>>
       ELSE /\ Len(pipeline_runs) < deploy.runs
            /\ EmailsFit(Cardinality(deploy.users))
            /\ wlock = NoThread
            /\ last_event_count' = TotalEvents
            /\ pipeline_runs' = Append(pipeline_runs, [status |-> "running"])
            /\ SetHandler(t, [Idle EXCEPT !.name = "scheduler_cycle",
                                          !.pc = "compute",
                                          !.run = Len(pipeline_runs) + 1])
    /\ UNCHANGED <<email_events, email_interactions, training_sessions,
                   behavioral_events, final_csv>>
    /\ UNCHANGED libvars

\* ------------------------------------------------------------------------
\* GET /api/email/track/<token>, api_server.py lines 830-863
\* ------------------------------------------------------------------------
\* lines 836-849: the click is logged; for a known token
\* transition(user, "phish_clicked") is called.  Token 0 is an unknown one.
track_email_click(t, token) ==
    /\ Free(t)
    /\ Fits
    /\ IF KnownToken(email_events, token)
       THEN /\ Len(email_interactions) < MaxInteractions
            /\ Len(training_sessions) < MaxSessions
            /\ email_interactions' =
                   Append(email_interactions,
                          [tracking_token |-> token,
                           user_id |-> email_events[token].user_id,
                           interaction |-> "click"])
            /\ email_events' = UpdateEmailStatus(email_events, token, "click")
            /\ EnterTransition(t, email_events[token].user_id,
                               HandlerTrigger.track_email_click)
            /\ SetHandler(t, [Idle EXCEPT !.name = "track_email_click",
                                          !.pc = "in_transition",
                                          !.user = email_events[token].user_id,
                                          !.token = token])
       ELSE /\ SetHandler(t, Respond([Idle EXCEPT
                                        !.name = "track_email_click"], 302))
            /\ UNCHANGED <<email_interactions, email_events, stack>>
    /\ UNCHANGED <<training_sessions, behavioral_events, pipeline_runs,
                   final_csv, last_event_count>>
    /\ UNCHANGED dbvars

\* the session created only when the transition was accepted
track_email_click_return_onlyAccepted(t) ==
    /\ HandlerAt(t, {"track_email_click"}, "in_transition")
    /\ Returned(t)
    /\ stack' = [stack EXCEPT ![t] = <<>>]
    /\ IF AtPc(t, "raised") \/ ~stack[t][1].success
       THEN /\ SetHandler(t, Respond(handler[t], 500))
            /\ UNCHANGED training_sessions
       ELSE /\ training_sessions' =
                   CreateTrainingSession(training_sessions, handler[t].user,
                                         "micro", handler[t].token)
            /\ SetHandler(t, Respond(handler[t], 302))
    /\ UNCHANGED <<email_events, email_interactions, behavioral_events,
                   pipeline_runs, final_csv, last_event_count>>
    /\ UNCHANGED dbvars

\* lines 851-861: a micro training session is created whatever the
\* transition returned
track_email_click_return(t) ==
    /\ HandlerAt(t, {"track_email_click"}, "in_transition")
    /\ Returned(t)
    /\ stack' = [stack EXCEPT ![t] = <<>>]
    /\ IF AtPc(t, "raised")
       THEN /\ SetHandler(t, Respond(handler[t], 500))
            /\ UNCHANGED training_sessions
       ELSE /\ training_sessions' =
                   CreateTrainingSession(training_sessions, handler[t].user,
                                         "micro", handler[t].token)
            /\ SetHandler(t, Respond(handler[t], 302))
    /\ UNCHANGED <<email_events, email_interactions, behavioral_events,
                   pipeline_runs, final_csv, last_event_count>>
    /\ UNCHANGED dbvars

\* ------------------------------------------------------------------------
\* POST /api/email/report, api_server.py lines 884-910
\* ------------------------------------------------------------------------
report_email(t, token) ==
    /\ Free(t)
    /\ Fits
    /\ IF KnownToken(email_events, token)
       THEN /\ Len(email_interactions) < MaxInteractions
            /\ email_interactions' =
                   Append(email_interactions,
                          [tracking_token |-> token,
                           user_id |-> email_events[token].user_id,
                           interaction |-> "report"])
            /\ email_events' = UpdateEmailStatus(email_events, token, "report")
            /\ EnterTransition(t, email_events[token].user_id,
                               HandlerTrigger.report_email)
            /\ SetHandler(t, [Idle EXCEPT !.name = "report_email",
                                          !.pc = "in_transition",
                                          !.user = email_events[token].user_id,
                                          !.token = token])
       ELSE /\ SetHandler(t, Respond([Idle EXCEPT !.name = "report_email"],
                                     404))
            /\ UNCHANGED <<email_interactions, email_events, stack>>
    /\ UNCHANGED <<training_sessions, behavioral_events, pipeline_runs,
                   final_csv, last_event_count>>
    /\ UNCHANGED dbvars

\* ------------------------------------------------------------------------
\* GET /api/training/complete-landing/<token>, lines 948-966
\* ------------------------------------------------------------------------
\* lines 951-960: the user's pending sessions are completed and
\* transition(user, "micro_completed") is called
complete_training_landing(t, token) ==
    /\ Free(t)
    /\ Fits
    /\ IF KnownToken(email_events, token)
       THEN /\ training_sessions' =
                   CompleteTrainingForUser(training_sessions,
                                           email_events[token].user_id)
            /\ EnterTransition(t, email_events[token].user_id,
                               HandlerTrigger.complete_training_landing)
            /\ SetHandler(t, [Idle EXCEPT !.name = "complete_training_landing",
                                          !.pc = "in_transition",
                                          !.user = email_events[token].user_id,
                                          !.token = token])
       ELSE /\ SetHandler(t, Respond([Idle EXCEPT
                                 !.name = "complete_training_landing"], 200))
            /\ UNCHANGED <<training_sessions, stack>>
    /\ UNCHANGED <<email_events, email_interactions, behavioral_events,
                   pipeline_runs, final_csv, last_event_count>>
    /\ UNCHANGED dbvars

\* report_email lines 903-909 and complete_training_landing lines 962-966:
\* the response does not depend on what transition() returned
plain_return(t) ==
    /\ HandlerAt(t, {"report_email", "complete_training_landing"},
                 "in_transition")
    /\ Returned(t)
    /\ stack' = [stack EXCEPT ![t] = <<>>]
    /\ SetHandler(t, Respond(handler[t],
                             IF AtPc(t, "raised") THEN 500 ELSE 200))
    /\ UNCHANGED <<email_events, email_interactions, training_sessions,
                   behavioral_events, pipeline_runs, final_csv,
                   last_event_count>>
    /\ UNCHANGED dbvars

\* ------------------------------------------------------------------------
\* GET /api/training/mandatory-complete/<user_id>, lines 1068-1099
\* ------------------------------------------------------------------------
\* lines 1075-1076
mandatory_complete(t, user_id) ==
    /\ Free(t)
    /\ user_id \in deploy.users
    /\ Fits
    /\ \A i \in DOMAIN final_csv.rows :
          final_csv.rows[i].user = user_id =>
              final_csv.rows[i].final_risk_score.d <= MaxDenominator
    /\ EnterTransition(t, user_id, HandlerTrigger.mandatory_complete)
    /\ SetHandler(t, [Idle EXCEPT !.name = "mandatory_complete",
                                  !.pc = "in_transition",
                                  !.user = user_id])
    /\ UNCHANGED <<email_events, email_interactions, training_sessions,
                   behavioral_events, pipeline_runs, final_csv,
                   last_event_count>>
    /\ UNCHANGED dbvars

\* lines 1078-1099: the user's score in the csv is cut, whatever the
\* transition returned
mandatory_complete_return(t) ==
    /\ HandlerAt(t, {"mandatory_complete"}, "in_transition")
    /\ Returned(t)
    /\ stack' = [stack EXCEPT ![t] = <<>>]
    /\ IF AtPc(t, "raised")
       THEN /\ SetHandler(t, Respond(handler[t], 500))
            /\ UNCHANGED final_csv
       ELSE /\ final_csv' = ReduceCsv(final_csv, handler[t].user)
            /\ SetHandler(t, Respond(handler[t], 200))
    /\ UNCHANGED <<email_events, email_interactions, training_sessions,
                   behavioral_events, pipeline_runs, last_event_count>>
    /\ UNCHANGED dbvars

\* ------------------------------------------------------------------------
\* POST /api/training/trigger (lines 969-998) and POST
\* /api/training/complete with a user_id (lines 1001-1032): the training
\* sessions change, the state machine is not called
\* ------------------------------------------------------------------------
trigger_training(t, user_id) ==
    /\ Free(t)
    /\ user_id \in deploy.users
    /\ Len(training_sessions) < MaxSessions
    /\ training_sessions' = CreateTrainingSession(training_sessions, user_id,
                                                  "micro", 0)
    /\ SetHandler(t, Respond([Idle EXCEPT !.name = "trigger_training",
                                          !.user = user_id], 200))
    /\ UNCHANGED <<email_events, email_interactions, behavioral_events,
                   pipeline_runs, final_csv, last_event_count>>
    /\ UNCHANGED libvars

complete_training(t, user_id) ==
    /\ Free(t)
    /\ user_id \in deploy.users
    /\ training_sessions' = CompleteTrainingForUser(training_sessions, user_id)
    /\ SetHandler(t, Respond([Idle EXCEPT !.name = "complete_training",
                                          !.user = user_id], 200))
    /\ UNCHANGED <<email_events, email_interactions, behavioral_events,
                   pipeline_runs, final_csv, last_event_count>>
    /\ UNCHANGED libvars

NextApp ==
    \/ \E t \in Threads, u \in Users : send_email(t, u)
    \/ \E t \in Threads : Dispatch(t)
    \/ \E t \in Threads : send_email_return(t)
    \/ \E t \in Threads, thr \in Thresholds : send_email_auto(t, thr)
    \/ \E t \in Threads : auto_send_loop(t)
    \/ \E t \in Threads : auto_send_return(t)
    \/ \E t \in Threads, u \in Users : collect_events(t, u)
    \/ \E t \in Threads : run_pipeline_from_collected(t)
    \/ \E t \in Threads : pipeline_compute(t)
    \/ \E t \in Threads : run_pipeline_cycle(t)
    \/ \E t \in Threads, k \in 0..MaxEmails : track_email_click(t, k)
    \/ \E t \in Threads : track_email_click_return(t)
    \/ \E t \in Threads, k \in 0..MaxEmails : report_email(t, k)
    \/ \E t \in Threads, k \in 0..MaxEmails : complete_training_landing(t, k)
    \/ \E t \in Threads : plain_return(t)
    \/ \E t \in Threads, u \in Users : mandatory_complete(t, u)
    \/ \E t \in Threads : mandatory_complete_return(t)
    \/ \E t \in Threads, u \in Users : trigger_training(t, u)
    \/ \E t \in Threads, u \in Users : complete_training(t, u)
    \/ \E t \in Threads : respond(t)
    \/ \E t \in Threads : GetState(t)
    \/ \E t \in Threads : Write(t)
    \/ \E t \in Threads : Commit(t)
    \/ \E t \in Threads : Sync(t)
    \/ \E t \in Threads : ReturnChained(t)

\* the deployed application: requests and scheduler cycles about one
\* user, one at a time
InitApp ==
    /\ InitDb
    /\ deploy = [workers |-> {"t1"}, users |-> {"u1"}, rows |-> MaxRowsApp,
                 runs |-> MaxRuns]
    /\ InitNoDecision

SpecApp == InitApp /\ [][NextApp]_vars

\* ------------------------------------------------------------------------
\* The scheduler thread and a request thread, each running the pipeline:
\* _run_pipeline_cycle is called by the loop of the scheduler's daemon
\* thread (scheduler.py lines 170-183), POST /api/pipeline/run by a request
\* thread of the server.  A thread of the model stands for whatever runs
\* on it between two idle points, so t1 serves requests between cycles.
\* ------------------------------------------------------------------------
NextPipeline ==
    \/ \E t \in Threads, u \in Users : collect_events(t, u)
    \/ \E t \in Threads : run_pipeline_from_collected(t)
    \/ \E t \in Threads : run_pipeline_cycle(t)
    \/ \E t \in Threads : pipeline_compute(t)
    \/ \E t \in Threads : auto_send_loop(t)
    \/ \E t \in Threads : Dispatch(t)
    \/ \E t \in Threads : auto_send_return(t)
    \/ \E t \in Threads : respond(t)
    \/ \E t \in Threads : GetState(t)
    \/ \E t \in Threads : Write(t)
    \/ \E t \in Threads : Commit(t)
    \/ \E t \in Threads : Sync(t)

InitPipeline ==
    /\ InitDb
    /\ deploy = [workers |-> Threads, users |-> {"u1"},
                 rows |-> MaxRowsPipeline, runs |-> MaxRunsPipeline]
    /\ InitNoDecision

SpecPipeline == InitPipeline /\ [][NextPipeline]_vars

\* ------------------------------------------------------------------------
\* The scheduler thread beside a request thread that serves
\* POST /api/training/trigger (api_server.py lines 889-915) as well as the
\* pipeline's requests
\* ------------------------------------------------------------------------
NextAutoSend ==
    \/ \E t \in Threads, u \in Users : collect_events(t, u)
    \/ \E t \in Threads : run_pipeline_from_collected(t)
    \/ \E t \in Threads : run_pipeline_cycle(t)
    \/ \E t \in Threads : pipeline_compute(t)
    \/ \E t \in Threads : auto_send_loop(t)
    \/ \E t \in Threads : Dispatch(t)
    \/ \E t \in Threads : auto_send_return(t)
    \/ \E t \in Threads, u \in Users : trigger_training(t, u)
    \/ \E t \in Threads : respond(t)
    \/ \E t \in Threads : GetState(t)
    \/ \E t \in Threads : Write(t)
    \/ \E t \in Threads : Commit(t)
    \/ \E t \in Threads : Sync(t)

SpecAutoSend == InitPipeline /\ [][NextAutoSend]_vars

\* ------------------------------------------------------------------------
\* A caller of decide_training_actions (api_server.py lines 181, 205, 1217)
\* ------------------------------------------------------------------------
Decide ==
    /\ training_actions = NotCalled
    /\ training_actions' = decide_training_actions(risk_frame)
    /\ UNCHANGED <<user_states, state_transitions, txn, wlock, stack, deploy,
                   accepted, syncs, clock, timestamps, query, risk_frame>>
    /\ UNCHANGED <<appvars, scorevars, schedvars>>

NextDecide == Decide

\* one call, with any DataFrame a caller may pass
InitDecide ==
    /\ InitDb
    /\ InitScheduler
    /\ deploy = [workers |-> {}, users |-> {}, rows |-> 0,
                 runs |-> MaxRuns]
    /\ risk_frame \in DataFrames
    /\ training_actions = NotCalled
    /\ InitNoScoring

SpecDecide == InitDecide /\ [][NextDecide]_vars

\* ------------------------------------------------------------------------
\* The scoring stages applied one after the other to a batch of events, as
\* run_pipeline.py lines 52-69, api_server.py lines 443-449 and scheduler.py
\* lines 69-75 apply them; a stage that raised ends the run
\* ------------------------------------------------------------------------
ScoringUnchanged ==
    UNCHANGED <<user_states, state_transitions, txn, wlock, stack, deploy,
                accepted, syncs, clock, timestamps, query, risk_frame,
                training_actions, appvars, schedvars>>

ExtractFeatures ==
    /\ auth_df.status = "frame"
    /\ features = NotRun
    /\ features' = extract_user_features(auth_df)
    /\ UNCHANGED <<auth_df, anomalies, score_args, results>>
    /\ ScoringUnchanged

RunIsolationForest ==
    /\ features.status = "frame"
    /\ anomalies = NotRun
    /\ anomalies' \in run_isolation_forest(features)
    /\ UNCHANGED <<auth_df, features, score_args, results>>
    /\ ScoringUnchanged

ComputeRiskScore ==
    /\ anomalies.status = "frame"
    /\ results = NotRun
    /\ results' \in compute_risk_score(anomalies, score_args.rule_based_score,
                                       score_args.ml_anomaly_score)
    /\ UNCHANGED <<auth_df, features, anomalies, score_args>>
    /\ ScoringUnchanged

NextScoring ==
    \/ ExtractFeatures
    \/ RunIsolationForest
    \/ ComputeRiskScore

\* any batch of events, scored by the three stages
InitScoring ==
    /\ InitDb
    /\ InitScheduler
    /\ deploy = [workers |-> {}, users |-> {}, rows |-> 0,
                 runs |-> MaxRuns]
    /\ risk_frame = NoFrame
    /\ training_actions = NotCalled
    /\ auth_df \in AuthFrames
    /\ features = NotRun
    /\ anomalies = NotRun
    /\ score_args = [rule_based_score |-> NoSeries,
                     ml_anomaly_score |-> NoSeries]
    /\ results = NotRun

SpecScoring == InitScoring /\ [][NextScoring]_vars

\* ------------------------------------------------------------------------
\* compute_risk_score called directly, with or without the optional Series
\* ------------------------------------------------------------------------
\* the Series of n rows a caller may pass: None, an empty one, or values
SeriesArguments(n) ==
    {NoSeries, GivenSeries(<<>>)}
        \cup {GivenSeries([i \in 1..n |-> Exact(v[i], 1)]) :
                v \in [1..n -> 0..MaxLevel]}

\* frames of n rows without the column anomaly_score
BareFrame(n) ==
    Frame({"user"}, [i \in 1..n |-> [user |-> i]])

\* frames of n rows with the column anomaly_score
ScoredFrames(n) ==
    {Frame({"user", "anomaly_score"},
           [i \in 1..n |-> [user |-> i, anomaly_score |-> Exact(v[i], 1)]]) :
        v \in [1..n -> 0..MaxLevel]}

NextBlend == ComputeRiskScore

InitBlend ==
    /\ InitDb
    /\ InitScheduler
    /\ deploy = [workers |-> {}, users |-> {}, rows |-> 0,
                 runs |-> MaxRuns]
    /\ risk_frame = NoFrame
    /\ training_actions = NotCalled
    /\ auth_df = NotRun
    /\ features = NotRun
    /\ results = NotRun
    /\ \E n \in 0..MaxScored :
        \/ /\ anomalies = BareFrame(n)
           /\ score_args \in [rule_based_score : SeriesArguments(n),
                              ml_anomaly_score : SeriesArguments(n)]
        \/ /\ anomalies \in ScoredFrames(n)
           /\ score_args \in [rule_based_score : SeriesArguments(n),
                              ml_anomaly_score : {NoSeries}]

SpecBlend == InitBlend /\ [][NextBlend]_vars

\* ------------------------------------------------------------------------
\* The scheduler started and stopped by request threads while its loop
\* threads run
\* ------------------------------------------------------------------------
NextScheduler ==
    \/ \E c \in Callers : start_scheduler(c)
    \/ \E c \in Callers : start_scheduler_test(c)
    \/ \E c \in Callers : start_scheduler_spawn(c)
    \/ \E c \in Callers : stop_scheduler(c)
    \/ \E c \in Callers : stop_scheduler_test(c)
    \/ \E c \in Callers : stop_scheduler_clear(c)
    \/ \E c \in Callers : lifecycle_return(c)
    \/ \E k \in 1..MaxLoops : scheduler_loop_test(k)
    \/ \E k \in 1..MaxLoops : scheduler_loop_call(k)
    \/ \E k \in 1..MaxLoops : scheduler_loop_note(k)
    \/ \E t \in Threads, u \in Users : collect_events(t, u)
    \/ \E t \in Threads : respond(t)
    \/ \E k \in 1..MaxLoops : scheduler_loop_cycle_end(k)
    \/ \E k \in 1..MaxLoops : scheduler_loop_sleep(k)

InitLifecycle ==
    /\ InitDb
    /\ deploy = [workers |-> {"t1"}, users |-> {"u1"}, rows |-> 0,
                 runs |-> MaxRuns]
    /\ InitNoDecision

SpecScheduler == InitLifecycle /\ [][NextScheduler]_vars

\* every thread gets to run: a caller in a call, a loop thread in its loop;
\* a cycle ends (it runs to completion or fails) and so does the for loop
\* (range(interval_seconds) is finite)
SpecSchedulerFair ==
    /\ SpecScheduler
    /\ \A k \in 1..MaxLoops : WF_vars(LoopStep(k))
    /\ \A c \in Callers : WF_vars(CallStep(c))

\* ========================================================================
\* Properties
\* ========================================================================
\* The transition table as section 4.5 of the specification prints it.
SpecTable ==
    {<<"CLEAN", "email_sent", "PHISH_SENT">>,
     <<"PHISH_SENT", "phish_clicked", "PHISH_CLICKED">>,
     <<"PHISH_SENT", "phish_reported", "COMPLIANT">>,
     <<"PHISH_SENT", "phish_ignored", "COMPLIANT">>,
     <<"PHISH_CLICKED", "micro_training_assigned", "MICRO_TRAINING_REQUIRED">>,
     <<"MICRO_TRAINING_REQUIRED", "micro_completed", "MICRO_TRAINING_COMPLETED">>,
     <<"MICRO_TRAINING_COMPLETED", "mandatory_assigned", "MANDATORY_TRAINING_REQUIRED">>,
     <<"MANDATORY_TRAINING_REQUIRED", "mandatory_completed", "COMPLIANT">>,
     <<"COMPLIANT", "email_sent", "PHISH_SENT">>}

InSpecTable(s, trig) == \E e \in SpecTable : e[1] = s /\ e[2] = trig

SpecTarget(s, trig) == (CHOOSE e \in SpecTable : e[1] = s /\ e[2] = trig)[3]

\* every activation of every thread
Frames == {<<t, i>> : t \in Threads, i \in 1..MaxDepth}

Live(fi) == fi[2] <= Len(stack[fi[1]])

FrameAt(fi) == stack[fi[1]][fi[2]]

\* the activation has passed the table test and was accepted
Accepted(f) ==
    \/ f.pc \in {"write", "commit", "sync", "chained"}
    \/ f.pc = "done" /\ f.success

\* the activation has passed the table test and was rejected
Rejected(f) == f.pc = "done" /\ ~f.success

\* the outermost activation of thread t has its result ready
Returning(t) == Len(stack[t]) = 1 /\ stack[t][1].pc = "done"

AuditRow(u, from, to, trig, reason) ==
    [user_id |-> u, from_state |-> from, to_state |-> to, trigger |-> trig,
     reason |-> reason]

\* ---- C1 ----------------------------------------------------------------
\* C1: a call made while the user is in state s with trigger t is accepted
\* exactly when (s, t) is one of the nine entries of the table, s being the
\* state the call reads; the accepted hop commits the table's target as the
\* user's state together with an audit row from s to that target.
C1_Step ==
    \A t \in Threads :
        /\ \* the table test
           (stack[t] # <<>> /\ Top(t).pc = "get_state" /\ stack'[t] # stack[t]) =>
               LET f == Top(t)
                   s == get_state(user_states, f.user_id)
                   g == stack'[t][Len(stack[t])]
               IN /\ g.current = s
                  /\ Accepted(g) <=> InSpecTable(s, f.trigger)
                  /\ Rejected(g) <=> ~InSpecTable(s, f.trigger)
                  /\ Accepted(g) => g.new_state = SpecTarget(s, f.trigger)
        /\ \* the hop
           (stack[t] # <<>> /\ Top(t).pc = "commit" /\ stack'[t] # stack[t]) =>
               LET f == Top(t)
                   target == SpecTarget(f.current, f.trigger)
               IN /\ InSpecTable(f.current, f.trigger)
                  /\ user_states' = [user_states EXCEPT ![f.user_id] = target]
                  /\ state_transitions' =
                        Append(state_transitions,
                               AuditRow(f.user_id, f.current, target,
                                        f.trigger, f.reason))

C1_TableDecides == [][C1_Step]_vars

\* an outside call found the user in the transient state
\* MICRO_TRAINING_COMPLETED and its hop to MANDATORY_TRAINING_REQUIRED is
\* committed
C1_Witness ==
    \E t \in Threads :
        /\ Len(stack[t]) = 1
        /\ stack[t][1].pc = "sync"
        /\ stack[t][1].current = "MICRO_TRAINING_COMPLETED"
        /\ stack[t][1].trigger = "mandatory_assigned"
        /\ user_states[stack[t][1].user_id] = "MANDATORY_TRAINING_REQUIRED"

\* ---- C2 ----------------------------------------------------------------
\* C2: when (current state, trigger) is not in the table the call raises
\* nothing and returns success = false with from_state = to_state = the
\* current state; neither the table test nor the return of the rejected
\* call changes a state row (none is created) or the audit log.
C2_Step ==
    \A t \in Threads :
        /\ (stack[t] # <<>> /\ Top(t).pc = "get_state" /\ stack'[t] # stack[t]
            /\ ~InSpecTable(get_state(user_states, Top(t).user_id), Top(t).trigger)) =>
               LET s == get_state(user_states, Top(t).user_id)
                   g == stack'[t][Len(stack[t])]
               IN /\ Len(stack'[t]) = Len(stack[t])
                  /\ g.pc = "done"
                  /\ g.success = FALSE
                  /\ g.current = s
                  /\ g.new_state = s
                  /\ UNCHANGED <<user_states, state_transitions, txn, wlock>>
        /\ (stack[t] # <<>> /\ Rejected(Top(t)) /\ stack'[t] # stack[t]) =>
               UNCHANGED <<user_states, state_transitions, txn, wlock>>

C3_Case(t) ==
    /\ Returning(t)
    /\ stack[t][1].trigger = "phish_clicked"
    /\ stack[t][1].rows0 = 1
    /\ RowsOf(state_transitions, stack[t][1].user_id)[1] =
          AuditRow(stack[t][1].user_id, "CLEAN", "PHISH_SENT", "email_sent",
                   CallerReason)

C3_EmailThenClick ==
    \A t \in Threads :
        C3_Case(t) =>
            LET u == stack[t][1].user_id
            IN /\ stack[t][1].success
               /\ user_states[u] = "MICRO_TRAINING_REQUIRED"
               /\ RowsOf(state_transitions, u) =
                     <<AuditRow(u, "CLEAN", "PHISH_SENT", "email_sent",
                                CallerReason),
                       AuditRow(u, "PHISH_SENT", "PHISH_CLICKED",
                                "phish_clicked", CallerReason),
                       AuditRow(u, "PHISH_CLICKED", "MICRO_TRAINING_REQUIRED",
                                "micro_training_assigned",
                                "Auto-assigned on phish click")>>

C3_Witness == \E t \in Threads : C3_Case(t)

\* ---- C4 ----------------------------------------------------------------
\* C4: calls do not overlap.  When an accepted micro_completed returns, the
\* user is in MANDATORY_TRAINING_REQUIRED and the call appended exactly two
\* audit rows: MICRO_TRAINING_REQUIRED -> MICRO_TRAINING_COMPLETED, then
\* MICRO_TRAINING_COMPLETED -> MANDATORY_TRAINING_REQUIRED by
\* mandatory_assigned.
C4_Case(t) ==
    /\ Returning(t)
    /\ stack[t][1].trigger = "micro_completed"
    /\ stack[t][1].success

C4_MicroThenMandatory ==
    \A t \in Threads :
        C4_Case(t) =>
            LET f == stack[t][1]
                u == f.user_id
                rows == RowsOf(state_transitions, u)
            IN /\ f.current = "MICRO_TRAINING_REQUIRED"
               /\ user_states[u] = "MANDATORY_TRAINING_REQUIRED"
               /\ Len(rows) = f.rows0 + 2
               /\ rows[f.rows0 + 1] =
                     AuditRow(u, "MICRO_TRAINING_REQUIRED",
                              "MICRO_TRAINING_COMPLETED", "micro_completed",
                              CallerReason)
               /\ rows[f.rows0 + 2] =
                     AuditRow(u, "MICRO_TRAINING_COMPLETED",
                              "MANDATORY_TRAINING_REQUIRED",
                              "mandatory_assigned",
                              "Auto-assigned after micro-training")

C4_Witness == \E t \in Threads : C4_Case(t)

\* ---- C5 ----------------------------------------------------------------
\* C5: calls do not overlap.  mandatory_completed for a user in
\* MANDATORY_TRAINING_REQUIRED is accepted and leaves the user COMPLIANT;
\* email_sent for a COMPLIANT user is accepted and leaves the user in
\* PHISH_SENT, the state the first email_sent of the lifecycle led to.
C5_Recurrent ==
    \A t \in Threads :
        Returning(t) =>
            LET f == stack[t][1]
            IN /\ (f.current = "MANDATORY_TRAINING_REQUIRED"
                   /\ f.trigger = "mandatory_completed") =>
                      (f.success /\ user_states[f.user_id] = "COMPLIANT")
               /\ (f.current = "COMPLIANT" /\ f.trigger = "email_sent") =>
                      (f.success /\ user_states[f.user_id] = "PHISH_SENT")

\* a user who went through both trainings is in PHISH_SENT again
C5_Witness ==
    \E t \in Threads :
        /\ Returning(t)
        /\ stack[t][1].current = "COMPLIANT"
        /\ stack[t][1].trigger = "email_sent"
        /\ stack[t][1].success
        /\ user_states[stack[t][1].user_id] = "PHISH_SENT"
        /\ \E i \in 1..Len(state_transitions) :
              /\ state_transitions[i].user_id = stack[t][1].user_id
              /\ state_transitions[i].trigger = "mandatory_completed"

\* ---- C6 ----------------------------------------------------------------
\* C6: the audit log only grows at its end, and it holds one row per
\* accepted transition (auto-chained ones included): its length is the
\* number of transitions accepted so far less those whose commit is still
\* to come.  A rejected call adds nothing.
Uncommitted == Cardinality({t \in Threads :
                   stack[t] # <<>> /\ Top(t).pc \in {"write", "commit"}})

IsPrefix(a, b) == Len(a) <= Len(b) /\ SubSeq(b, 1, Len(a)) = a

C6_Step ==
    /\ IsPrefix(state_transitions, state_transitions')
    /\ Len(state_transitions') + Uncommitted' = accepted'
    /\ \A t \in Threads :
          (stack[t] # <<>> /\ stack'[t] # stack[t]
           /\ ~(Top(t).pc = "commit")) =>
              state_transitions' = state_transitions

C6_AppendOnly == [][C6_Step]_vars

\* two users have audit rows, and a rejected call is returning
C6_Witness ==
    /\ Len(state_transitions) >= 3
    /\ \A u \in Users : RowsOf(state_transitions, u) # <<>>
    /\ \E t \in Threads : Returning(t) /\ Rejected(stack[t][1])

\* ---- C8 ----------------------------------------------------------------
\* C8: calls of different threads for the same user are serialized: each
\* audit row's from_state is the state committed just before it, that is
\* the to_state of the user's previous audit row (CLEAN for the first), and
\* the auto-chained rows of a user are no more than the rows that trigger
\* them.
CountRows(rows, P(_)) == Cardinality({i \in 1..Len(rows) : P(rows[i])})

IsClickRow(r) == r.to_state = "PHISH_CLICKED"

IsAutoMicroRow(r) == r.trigger = "micro_training_assigned"

IsMicroDoneRow(r) == r.to_state = "MICRO_TRAINING_COMPLETED"

IsAutoMandatoryRow(r) == r.trigger = "mandatory_assigned"

C8_Serialized ==
    \A u \in Users :
        LET rows == RowsOf(state_transitions, u)
        IN /\ \A i \in 1..Len(rows) :
                 rows[i].from_state =
                     (IF i = 1 THEN "CLEAN" ELSE rows[i - 1].to_state)
           /\ CountRows(rows, IsAutoMicroRow) <= CountRows(rows, IsClickRow)
           /\ CountRows(rows, IsAutoMandatoryRow) <= CountRows(rows, IsMicroDoneRow)

\* ---- C9 ----------------------------------------------------------------
\* C9: in every database state another connection can read, each user's
\* state row is the to_state of that user's latest audit row, and a user
\* without audit rows has no state row.
C9_RowMatchesLog ==
    \A u \in Users :
        LET rows == RowsOf(state_transitions, u)
        IN IF rows = <<>> THEN user_states[u] = NoRow
           ELSE user_states[u] = rows[Len(rows)].to_state

\* one connection is between its two INSERTs and commit while another
\* thread is about to read the same user's state
C9_Witness ==
    \E t1 \in Threads, t2 \in Threads :
        /\ t1 # t2
        /\ wlock = t1
        /\ stack[t1] # <<>> /\ Top(t1).pc = "commit"
        /\ stack[t2] # <<>> /\ Top(t2).pc = "get_state"
        /\ Top(t2).user_id = Top(t1).user_id
        /\ user_states[Top(t1).user_id] # NoRow

\* ---- C10 ---------------------------------------------------------------
\* C10: calls do not overlap.  No activation ends by an exception of the
\* mirror; a call whose mirror failed returns success = true with its hop
\* and the auto-chained hop committed (state row and audit rows); and the
\* mirror has been tried exactly once for each committed row, except the
\* row whose mirror step is next.
FinalOf(s) ==
    IF s = "PHISH_CLICKED" THEN "MICRO_TRAINING_REQUIRED"
    ELSE IF s = "MICRO_TRAINING_COMPLETED" THEN "MANDATORY_TRAINING_REQUIRED"
    ELSE s

HopsOf(s) ==
    IF s \in {"PHISH_CLICKED", "MICRO_TRAINING_COMPLETED"} THEN 2 ELSE 1

MirrorFailed(f) == f.mirror \in {"unavailable", "exception"}

AtSync == Cardinality({t \in Threads : stack[t] # <<>> /\ Top(t).pc = "sync"})

C10_MirrorFailureHarmless ==
    /\ \A fi \in Frames : Live(fi) => FrameAt(fi).pc # "raised"
    /\ \A t \in Threads :
          (Returning(t) /\ MirrorFailed(stack[t][1])) =>
              LET f == stack[t][1]
              IN /\ f.success
                 /\ user_states[f.user_id] = FinalOf(f.new_state)
                 /\ Len(RowsOf(state_transitions, f.user_id)) =
                       f.rows0 + HopsOf(f.new_state)
    /\ syncs + AtSync = Len(state_transitions)

\* the mirror raised on the hop into PHISH_CLICKED and the call returns
\* with the chained hop done
C10_Witness ==
    \E t \in Threads :
        /\ Returning(t)
        /\ stack[t][1].mirror = "exception"
        /\ stack[t][1].new_state = "PHISH_CLICKED"
        /\ user_states[stack[t][1].user_id] = "MICRO_TRAINING_REQUIRED"

\* ------------------------------------------------------------------------
\* C7: every email-sending path (the scheduler cycle, POST /api/email/send,
\* POST /api/email/send-auto, the auto-send of POST /api/pipeline/run)
\* dispatches and logs an email to a user only while the user's state is
\* CLEAN or COMPLIANT, so the email_sent that follows is never rejected.
\* ------------------------------------------------------------------------
EmailPaths == {"send_email", "send_email_auto", "pipeline_run",
               "scheduler_cycle"}

\* the step logs an email
LogsEmail == Len(email_events') = Len(email_events) + 1

\* the email_sent of an email path has been rejected
EmailSentRejected(t) ==
    /\ handler[t].name \in EmailPaths
    /\ handler[t].pc = "in_transition"
    /\ stack[t] # <<>>
    /\ Rejected(stack[t][1])

C7_Step ==
    /\ LogsEmail =>
          get_state(user_states, email_events'[Len(email_events')].user_id)
              \in {"CLEAN", "COMPLIANT"}
    /\ \A t \in Threads : ~EmailSentRejected(t)'

C7_EmailOnlyWhenCleanOrCompliant == [][C7_Step]_vars

\* ---- C11 ---------------------------------------------------------------
\* C11: calls do not overlap.  Every call of transition() returns, whatever
\* the user's state and the trigger, and between its entry and its return
\* the user's audit log grows by the requested transition and at most two
\* chained ones.
HopsSoFar(t) ==
    Len(RowsOf(state_transitions, stack[t][1].user_id)) - stack[t][1].rows0

C11_ChainTerminates ==
    /\ \A t \in Threads : (stack[t] # <<>>) ~> (stack[t] = <<>>)
    /\ [](\A t \in Threads : stack[t] # <<>> => HopsSoFar(t) <= 1 + 2)

\* a call that chained has its result: requested hop and chained hop done
C11_Witness ==
    \E t \in Threads :
        /\ Returning(t)
        /\ HopsSoFar(t) = 2
        /\ stack[t][1].new_state \in {"PHISH_CLICKED",
                                      "MICRO_TRAINING_COMPLETED"}

\* ---- C12 ---------------------------------------------------------------
\* C12: a call that reads the state of a user without a row reads CLEAN and
\* the read creates no row; a rejected call creates no row; a user's row
\* appears in the step that commits the user's first accepted transition,
\* together with the first row of the user's audit log.
C12_Step ==
    \A u \in Users :
        /\ (user_states[u] = NoRow /\ user_states'[u] # NoRow) =>
              /\ \E t \in Threads :
                    /\ txn[t].open /\ txn[t].row[1] = u
                    /\ txn'[t] = NoTxn
                    /\ Accepted(Top(t))
              /\ RowsOf(state_transitions, u) = <<>>
              /\ Len(RowsOf(state_transitions', u)) = 1
        /\ \A t \in Threads :
              (/\ AtPc(t, "get_state")
               /\ Top(t).user_id = u
               /\ user_states[u] = NoRow
               /\ stack'[t] # stack[t]) =>
                  /\ stack'[t][Len(stack'[t])].current = "CLEAN"
                  /\ user_states'[u] = NoRow
        /\ \A t \in Threads :
              (/\ stack'[t] # <<>>
               /\ stack'[t] # stack[t]
               /\ Rejected(stack'[t][Len(stack'[t])])) =>
                  user_states'[u] = user_states[u]

C12_RowOnFirstAccepted == [][C12_Step]_vars

\* one user's first accepted transition has just been committed while a
\* rejected call about a user without a row has its result
C12_Witness ==
    \E t1, t2 \in Threads :
        /\ AtPc(t1, "sync")
        /\ Top(t1).current = "CLEAN" /\ Top(t1).rows0 = 0
        /\ user_states[Top(t1).user_id] = "PHISH_SENT"
        /\ Returning(t2) /\ Rejected(stack[t2][1])
        /\ user_states[stack[t2][1].user_id] = NoRow

\* ---- C13 ---------------------------------------------------------------
\* C13: every user's current_state is one of the seven states; whenever a
\* user's current_state changes, some entry of the transition table leads
\* from the previous value (CLEAN for a user without a row) to the new
\* one; a row, once there, stays.
TableStep(from, to) ==
    \E trig \in Triggers : InSpecTable(from, trig) /\ SpecTarget(from, trig) = to

C13_Step ==
    \A u \in Users :
        /\ user_states[u] # NoRow => user_states[u] \in STATES
        /\ user_states'[u] # user_states[u] =>
              /\ user_states'[u] # NoRow
              /\ TableStep(get_state(user_states, u), user_states'[u])

C13_StateFollowsTable == [][C13_Step]_vars

\* ---- C14 ---------------------------------------------------------------
\* C14: calls and queries do not overlap.  get_history(user, limit) returns
\* the user's audit rows from the last accepted to the first, cut after
\* limit rows; a chained row comes before the row of the transition that
\* chained it, also when both carry the same timestamp.
NthRecent(ids, k) == CHOOSE i \in ids : Cardinality({j \in ids : j > i}) = k - 1

ExpectedHistory(log, stamps, user_id, limit) ==
    LET ids == UserRowIds(log, user_id)
    IN [k \in 1..Min(limit, Cardinality(ids)) |->
           HistoryEntry(log, stamps, NthRecent(ids, k))]

C14_HistoryMostRecentFirst ==
    \A t \in Threads :
        query[t].op = "get_history" =>
            query[t].result = ExpectedHistory(state_transitions, timestamps,
                                              query[t].user_id, query[t].limit)

\* ---- C15 ---------------------------------------------------------------
\* C15: get_state_distribution() returns a mapping whose keys are exactly
\* the seven states; each state maps to the number of user rows in that
\* state, 0 when there is none; the counts add up to the number of rows.
RECURSIVE SumOver(_, _)
SumOver(f, S) ==
    IF S = {} THEN 0
    ELSE LET x == CHOOSE y \in S : TRUE IN f[x] + SumOver(f, S \ {x})

UserRows == {u \in Users : user_states[u] # NoRow}

C15_DistributionCoversStates ==
    \A t \in Threads :
        query[t].op = "get_state_distribution" =>
            LET dist == query[t].result
            IN /\ DOMAIN dist = STATES
               /\ \A s \in STATES :
                     dist[s] = Cardinality({u \in UserRows : user_states[u] = s})
               /\ SumOver(dist, DOMAIN dist) = Cardinality(UserRows)

\* the distribution of two users in different states, one of them after a
\* chained transition
C15_Witness ==
    \E t \in Threads :
        /\ query[t].op = "get_state_distribution"
        /\ query[t].result["PHISH_SENT"] = 1
        /\ query[t].result["MICRO_TRAINING_REQUIRED"] = 1
        /\ query[t].result["CLEAN"] = 0

\* ---- C16 ---------------------------------------------------------------
\* C16: in every reachable state, for each user some trigger is accepted
\* from the user's state, the table leads from that state to COMPLIANT,
\* and COMPLIANT itself is left by an accepted trigger: an email_sent
\* accepted for a COMPLIANT user leaves the user in another state.
RECURSIVE Closure(_)
Closure(S) ==
    LET next == S \cup {TRANSITIONS[k] : k \in {x \in DOMAIN TRANSITIONS : x[1] \in S}}
    IN IF next = S THEN S ELSE Closure(next)

\* the states the table leads to from s in one step or more
TableReach(s) ==
    Closure({TRANSITIONS[k] : k \in {x \in DOMAIN TRANSITIONS : x[1] = s}})

C16_NoTerminalState ==
    /\ \A u \in Users :
          LET s == get_state(user_states, u)
          IN /\ \E k \in DOMAIN TRANSITIONS : k[1] = s
             /\ "COMPLIANT" \in TableReach(s)
    /\ \A t \in Threads :
          (/\ Returning(t)
           /\ stack[t][1].current = "COMPLIANT"
           /\ stack[t][1].trigger = "email_sent") =>
              /\ stack[t][1].success
              /\ user_states[stack[t][1].user_id] # "COMPLIANT"

\* a user who was COMPLIANT after reporting an email has left COMPLIANT
C16_Witness ==
    \E t \in Threads :
        /\ Returning(t)
        /\ stack[t][1].current = "COMPLIANT"
        /\ user_states[stack[t][1].user_id] = "PHISH_SENT"
        /\ \E i \in DOMAIN state_transitions :
              /\ state_transitions[i].user_id = stack[t][1].user_id
              /\ state_transitions[i].trigger = "phish_reported"
              /\ state_transitions[i].to_state = "COMPLIANT"

\* ---- C17 ---------------------------------------------------------------
\* C17: each of the six external triggers is fired by a collaborator:
\* whenever the table accepts an external trigger from the state a user is
\* in, some handler or the scheduler passes that trigger to transition().
ExternalTriggers ==
    {"email_sent", "phish_clicked", "phish_reported", "phish_ignored",
     "micro_completed", "mandatory_completed"}

CollaboratorTriggers == {HandlerTrigger[h] : h \in DOMAIN HandlerTrigger}

C17_ExternalTriggersFired ==
    \A u \in deploy.users, trig \in ExternalTriggers :
        <<get_state(user_states, u), trig>> \in DOMAIN TRANSITIONS =>
            trig \in CollaboratorTriggers

\* no call a collaborator makes carries phish_ignored
C17_IgnoredNeverApplied ==
    \A t \in Threads :
        stack[t] # <<>> => stack[t][1].trigger # "phish_ignored"

\* the trigger trig, passed by a collaborator, has been accepted
AppliedByCollaborator(trig) ==
    \E t \in Threads :
        /\ handler[t].pc = "in_transition"
        /\ Returning(t)
        /\ stack[t][1].trigger = trig
        /\ stack[t][1].success

\* ---- C18 ---------------------------------------------------------------
\* C18: in every interleaving of calls, a step changes a user's state row
\* or the user's audit rows only if it is the commit of a call made for
\* that user; calls for other users leave both as they are.
C18_Step ==
    \A u \in Users :
        (\/ user_states'[u] # user_states[u]
         \/ RowsOf(state_transitions', u) # RowsOf(state_transitions, u)) =>
            \E t \in Threads :
                /\ AtPc(t, "commit")
                /\ Top(t).user_id = u
                /\ txn[t].open /\ txn'[t] = NoTxn

C18_OtherUsersUntouched == [][C18_Step]_vars

\* calls for two different users overlap: one has just committed its
\* user's first row while the other, for a user who has a row, holds the
\* write lock with its upsert staged
C18_Witness ==
    \E t1, t2 \in Threads :
        /\ stack[t1] # <<>> /\ stack[t2] # <<>>
        /\ stack[t1][1].user_id # stack[t2][1].user_id
        /\ Top(t1).pc = "sync" /\ Top(t1).rows0 = 0
        /\ wlock = t2 /\ Top(t2).pc = "commit"
        /\ user_states[stack[t2][1].user_id] # NoRow

\* ------------------------------------------------------------------------
\* C19: decide_training_actions gives every numeric risk score exactly one
\* action: NONE below 0.3, MICRO from 0.3 (included) to 0.6 (excluded),
\* MANDATORY from 0.6 (included); micro_training_url is non-empty exactly
\* on the MICRO rows and mandatory_training_url exactly on the MANDATORY
\* rows.
\* ------------------------------------------------------------------------
\* the band of the score n / d, in integer arithmetic
Band(score) ==
    IF 10 * score.n < 3 * score.d THEN "NONE"
    ELSE IF 10 * score.n < 6 * score.d THEN "MICRO"
    ELSE "MANDATORY"

C19_ThresholdBands ==
    training_actions.status = "returned" =>
        /\ Len(training_actions.rows) = Len(risk_frame.risk_score)
        /\ \A i \in 1..Len(training_actions.rows) :
            LET row == training_actions.rows[i]
                score == to_numeric(risk_frame.risk_score[i])
            IN  /\ score # NaN
                /\ row.training_action = Band(score)
                /\ (row.micro_training_url # "") <=>
                        (row.training_action = "MICRO")
                /\ (row.mandatory_training_url # "") <=>
                        (row.training_action = "MANDATORY")

\* a frame was annotated that holds a score of exactly 0.3 and a score of
\* exactly 0.6
C19_Witness ==
    /\ training_actions.status = "returned"
    /\ \E i, j \in 1..Len(training_actions.rows) :
        /\ 10 * training_actions.rows[i].risk_score.n
                = 3 * training_actions.rows[i].risk_score.d
        /\ training_actions.rows[i].training_action = "MICRO"
        /\ 10 * training_actions.rows[j].risk_score.n
                = 6 * training_actions.rows[j].risk_score.d
        /\ training_actions.rows[j].training_action = "MANDATORY"

\* ------------------------------------------------------------------------
\* C20: whenever a risk_score is null or non-numeric, decide_training_actions
\* fails with a validation error that names the offending rows; it gives
\* such a row no default band and returns no partial result.
\* ------------------------------------------------------------------------
\* the rows whose risk_score is null or is text that writes no number
Offending(df) ==
    {i \in 1..Len(df.risk_score) :
        \/ df.risk_score[i].kind \in {"none", "nan"}
        \/ /\ df.risk_score[i].kind = "str"
           /\ ParseFloat(df.risk_score[i].text) = NaN}

\* the frame with rows i and j exchanged
SwapRows(df, i, j) ==
    [df EXCEPT !.risk_score =
        [k \in 1..Len(df.risk_score) |->
            IF k = i THEN df.risk_score[j]
            ELSE IF k = j THEN df.risk_score[i]
            ELSE df.risk_score[k]]]

\* an error names the offending rows only if it differs from the error
\* raised when an offending row and a valid row change places
C20_ValidationNamesRows ==
    (/\ training_actions # NotCalled
     /\ missing(risk_frame) = <<>>
     /\ Offending(risk_frame) # {}) =>
        /\ training_actions.status = "ValueError"
        /\ \A i \in Offending(risk_frame) :
            \A j \in (1..Len(risk_frame.risk_score)) \ Offending(risk_frame) :
                decide_training_actions(SwapRows(risk_frame, i, j))
                    # training_actions

\* the part of C20 that the code keeps: an offending row makes the call
\* raise, so no row is annotated
C20_OffendingRowRaises ==
    (/\ training_actions # NotCalled
     /\ missing(risk_frame) = <<>>
     /\ Offending(risk_frame) # {}) =>
        training_actions.status = "ValueError"

\* ------------------------------------------------------------------------
\* C21: for a batch of exactly one user compute_risk_score gives
\* ml_anomaly_score = 0, rule_based_score = 0, final_risk_score = 0 and the
\* reason "Single-user data: insufficient variation to assess deviation".
\* ------------------------------------------------------------------------
C21_SingleUserReason ==
    (results.status = "frame" /\ Len(anomalies.rows) = 1) =>
        /\ Len(results.rows) = 1
        /\ results.rows[1].ml_anomaly_score = Exact(0, 1)
        /\ results.rows[1].rule_based_score = Exact(0, 1)
        /\ results.rows[1].final_risk_score = Exact(0, 1)
        /\ results.rows[1].risk_reason = REASON_SINGLE

\* the part of C21 that the code keeps: the three scores are 0
C21_SingleUserScores ==
    (results.status = "frame" /\ Len(anomalies.rows) = 1) =>
        /\ Len(results.rows) = 1
        /\ results.rows[1].ml_anomaly_score = Exact(0, 1)
        /\ results.rows[1].rule_based_score = Exact(0, 1)
        /\ results.rows[1].final_risk_score = Exact(0, 1)
        /\ results.rows[1].risk_reason = REASON_NONE

\* ------------------------------------------------------------------------
\* C22: in a batch of two or more users every risk_reason is one of the
\* four texts, chosen by precedence: ml > 0.7 and rb > 0.7 gives the
\* combined text; else ml >= rb and ml > 0.6 the baseline text; else
\* rb > ml and rb > 0.6 the multiple-deviations text; else the
\* no-evidence text.
\* ------------------------------------------------------------------------
ReasonByPrecedence(ml, rb) ==
    IF NumGt(ml, Exact(7, 10)) /\ NumGt(rb, Exact(7, 10))
    THEN REASON_COMBINED
    ELSE IF NumGeq(ml, rb) /\ NumGt(ml, Exact(6, 10))
    THEN REASON_BASELINE
    ELSE IF NumGt(rb, ml) /\ NumGt(rb, Exact(6, 10))
    THEN REASON_MULTIPLE
    ELSE REASON_NONE

C22_ReasonByPrecedence ==
    (results.status = "frame" /\ Len(results.rows) >= 2) =>
        \A i \in DOMAIN results.rows :
            results.rows[i].risk_reason =
                ReasonByPrecedence(results.rows[i].ml_anomaly_score,
                                   results.rows[i].rule_based_score)

\* one batch holds a combined row, a baseline row with ml in (0.6, 0.7]
\* and a multiple-deviations row
C22_Witness ==
    /\ results.status = "frame"
    /\ \E i, j, k \in DOMAIN results.rows :
        /\ results.rows[i].risk_reason = REASON_COMBINED
        /\ results.rows[j].risk_reason = REASON_BASELINE
        /\ NumLeq(results.rows[j].ml_anomaly_score, Exact(7, 10))
        /\ results.rows[k].risk_reason = REASON_MULTIPLE

\* ------------------------------------------------------------------------
\* C23: in every row compute_risk_score produces, final_risk_score is
\* 0.5 * ml_anomaly_score + 0.5 * rule_based_score and lies in [0, 1], and
\* ml_anomaly_score and rule_based_score lie in [0, 1].
\* ------------------------------------------------------------------------
InUnit(x) == NumGeq(x, Exact(0, 1)) /\ NumLeq(x, Exact(1, 1))

C23_FinalIsBlend ==
    results.status = "frame" =>
        \A i \in DOMAIN results.rows :
            LET row == results.rows[i]
            IN  /\ NumScale(2, 1, row.final_risk_score)
                      = NumAdd(row.ml_anomaly_score, row.rule_based_score)
                /\ InUnit(row.final_risk_score)
                /\ InUnit(row.ml_anomaly_score)
                /\ InUnit(row.rule_based_score)

\* a row scored from events whose two components differ and are not 0
C23_Witness ==
    /\ results.status = "frame"
    /\ auth_df.status = "frame"
    /\ \E i \in DOMAIN results.rows :
        /\ NumGt(results.rows[i].ml_anomaly_score, Exact(0, 1))
        /\ NumGt(results.rows[i].rule_based_score, Exact(0, 1))
        /\ results.rows[i].ml_anomaly_score
                # results.rows[i].rule_based_score

\* ------------------------------------------------------------------------
\* C25: min-max normalisation gives 0.0 in every row when all values of the
\* column are identical (a one-row batch included); otherwise every
\* normalised value lies in [0, 1], the minimum is mapped to 0 and the
\* order of the values is preserved.
\* ------------------------------------------------------------------------
\* the Series compute_risk_score normalised into column c of the result,
\* by row of the frame passed
NormalisedFrom(c) ==
    IF score_args[c].given THEN score_args[c].values
    ELSE Column(anomalies, "anomaly_score")

\* the row of the result that belongs to row u of the frame passed
ResultOf(u) ==
    results.rows[CHOOSE i \in DOMAIN results.rows : results.rows[i].user = u]

\* compute_risk_score normalised a Series into column c
Normalised(c) ==
    /\ results.status = "frame"
    /\ Len(results.rows) > 0
    /\ score_args[c].given => score_args[c].values # <<>>
    /\ c = "rule_based_score" => score_args[c].given

MinMaxHolds(c) ==
    LET raw == NormalisedFrom(c)
        rows == DOMAIN raw
    IN  IF \A u, v \in rows : raw[u] = raw[v]
        THEN \A u \in rows : ResultOf(u)[c] = Exact(0, 1)
        ELSE /\ \A u \in rows : InUnit(ResultOf(u)[c])
             /\ \A u \in rows :
                    (\A v \in rows : NumLeq(raw[u], raw[v])) =>
                        ResultOf(u)[c] = Exact(0, 1)
             /\ \A u, v \in rows :
                    NumLt(raw[u], raw[v]) =>
                        NumLt(ResultOf(u)[c], ResultOf(v)[c])

C25_MinMaxNormalisation ==
    \A c \in {"ml_anomaly_score", "rule_based_score"} :
        Normalised(c) => MinMaxHolds(c)

\* one call normalised a Series of three different values and a Series of
\* identical values
C25_Witness ==
    /\ Normalised("ml_anomaly_score")
    /\ Normalised("rule_based_score")
    /\ Len(results.rows) = 3
    /\ \A u, v \in 1..3 :
        u # v => NormalisedFrom("ml_anomaly_score")[u]
                    # NormalisedFrom("ml_anomaly_score")[v]
    /\ \A u, v \in 1..3 :
        NormalisedFrom("rule_based_score")[u]
            = NormalisedFrom("rule_based_score")[v]

\* ------------------------------------------------------------------------
\* C26: zero-row input is no error for extract_user_features,
\* run_isolation_forest and compute_risk_score: each returns an empty
\* result that carries its output columns.
\* ------------------------------------------------------------------------
EmptyFrame(df) == df.status = "frame" /\ df.rows = <<>>

C26_EmptyInputNoError ==
    /\ (EmptyFrame(auth_df) /\ features # NotRun) =>
            (EmptyFrame(features) /\ FEATURE_COLUMNS \subseteq features.columns)
    /\ (EmptyFrame(features) /\ anomalies # NotRun) =>
            (EmptyFrame(anomalies) /\ "anomaly_score" \in anomalies.columns)
    /\ (EmptyFrame(anomalies) /\ results # NotRun) =>
            (EmptyFrame(results) /\ RISK_COLUMNS \subseteq results.columns)

\* the part of C26 that the code keeps: extract_user_features and
\* compute_risk_score
C26_EmptyInputOtherStages ==
    /\ (EmptyFrame(auth_df) /\ features # NotRun) =>
            (EmptyFrame(features) /\ FEATURE_COLUMNS \subseteq features.columns)
    /\ (EmptyFrame(anomalies) /\ results # NotRun) =>
            (EmptyFrame(results) /\ RISK_COLUMNS \subseteq results.columns)

\* ------------------------------------------------------------------------
\* C27: extract_user_features returns exactly one row per distinct user
\* with at least one event, never a row with login_count = 0; login_count
\* is the number of the user's events, failed_login_ratio is failed_count /
\* login_count in [0, 1], and the host counts are the numbers of distinct
\* source and destination hosts of that user.
\* ------------------------------------------------------------------------
EventsOf(u) == {i \in DOMAIN auth_df.rows : auth_df.rows[i].user = u}

C27_OneRowPerUser ==
    features.status = "frame" =>
        /\ \A i, j \in DOMAIN features.rows :
                i # j => features.rows[i].user # features.rows[j].user
        /\ {features.rows[i].user : i \in DOMAIN features.rows}
                = {auth_df.rows[i].user : i \in DOMAIN auth_df.rows}
        /\ \A i \in DOMAIN features.rows :
            LET row == features.rows[i]
                events == EventsOf(row.user)
                failed == {e \in events : ~auth_df.rows[e].success}
            IN  /\ row.login_count > 0
                /\ row.login_count = Cardinality(events)
                /\ row.failed_login_ratio.en = 0
                /\ row.failed_login_ratio.n * row.login_count
                        = Cardinality(failed) * row.failed_login_ratio.d
                /\ InUnit(row.failed_login_ratio)
                /\ row.unique_src_hosts
                        = Cardinality({auth_df.rows[e].src_host : e \in events})
                /\ row.unique_dst_hosts
                        = Cardinality({auth_df.rows[e].dst_host : e \in events})

\* two users, one of them with two events from different source hosts, one
\* of the two failed
C27_Witness ==
    /\ features.status = "frame"
    /\ Len(features.rows) = 2
    /\ \E i \in DOMAIN features.rows :
        /\ features.rows[i].login_count = 2
        /\ features.rows[i].unique_src_hosts = 2
        /\ features.rows[i].failed_login_ratio = Exact(1, 2)

\* ------------------------------------------------------------------------
\* C24: every record of the persisted scored table satisfies
\* final_risk_score = 0.5 * ml_anomaly_score + 0.5 * rule_based_score in
\* every reachable state, after any sequence of pipeline runs and
\* training-completion requests.
\* ------------------------------------------------------------------------
C24_TableKeepsBlend ==
    final_csv.exists =>
        \A i \in DOMAIN final_csv.rows :
            LET row == final_csv.rows[i]
                blend == HalfSum(row.ml_anomaly_score, row.rule_based_score)
            IN  row.final_risk_score.n * blend.d
                    = blend.n * row.final_risk_score.d

\* the part of C24 that the code keeps: a pipeline run writes blended rows
C24_RunWritesBlend ==
    [][final_csv' # final_csv =>
        \/ \E t \in Threads : handler[t].name = "mandatory_complete"
        \/ \A i \in DOMAIN final_csv'.rows :
            LET row == final_csv'.rows[i]
                blend == HalfSum(row.ml_anomaly_score, row.rule_based_score)
            IN  row.final_risk_score.n * blend.d
                    = blend.n * row.final_risk_score.d]_vars

\* ------------------------------------------------------------------------
\* C29: every pipeline run whose start was recorded and that then fails
\* has its run record in status 'failed'; in the scheduler path and in
\* the API path no run record stays in status 'running' after its run
\* has ended.
\* ------------------------------------------------------------------------
\* run number r is still being worked on by a handler
RunInProgress(r) ==
    \E t \in Threads :
        /\ handler[t].name \in {"pipeline_run", "scheduler_cycle"}
        /\ handler[t].run = r
        /\ handler[t].pc # "respond"

C29_NoRunLeftRunning ==
    \A r \in DOMAIN pipeline_runs :
        pipeline_runs[r].status = "running" => RunInProgress(r)

\* the part of C29 that the code keeps: the API path
C29_ApiRunRecorded ==
    \A r \in DOMAIN pipeline_runs :
        pipeline_runs[r].status = "running" =>
            \/ RunInProgress(r)
            \/ \E t \in Threads : /\ handler[t].name = "scheduler_cycle"
                                  /\ handler[t].run = r
            \/ last_event_count > 0

\* ------------------------------------------------------------------------
\* C28: when a pipeline run (scheduler cycle or POST /api/pipeline/run)
\* fails in feature extraction, anomaly scoring or risk blending, the run
\* halts and the persisted scored table is left as it was: the table is
\* written only after all three stages succeeded, and never partially.
\* ------------------------------------------------------------------------
\* the step in which thread t's run fails in one of the stages
RunFails(t) ==
    /\ handler[t].name \in {"pipeline_run", "scheduler_cycle"}
    /\ handler[t].pc = "compute"
    /\ handler'[t].pc = "respond"

\* the step in which thread t's run writes the table of all three stages
RunWritesWholeTable(t) ==
    /\ handler[t].name \in {"pipeline_run", "scheduler_cycle"}
    /\ handler[t].pc = "compute"
    /\ handler'[t].pc = "loop"
    /\ pipeline_runs'[handler[t].run].status = "completed"
    /\ final_csv'.exists
    /\ Len(final_csv'.rows) = Cardinality(UsersWithEvents)
    /\ \A u \in UsersWithEvents :
          \E i \in DOMAIN final_csv'.rows : final_csv'.rows[i].user = u

C28_FailedRunKeepsTable ==
    [][/\ \A t \in Threads : RunFails(t) =>
              /\ final_csv' = final_csv
              /\ handler'[t].todo = <<>>
       /\ final_csv' # final_csv => \E t \in Threads : RunWritesWholeTable(t)
      ]_vars

\* the second run, a request's, has just failed while the table of the
\* first run is there
C28_Witness ==
    /\ final_csv.exists
    /\ Len(pipeline_runs) = 2
    /\ pipeline_runs[1].status = "completed"
    /\ pipeline_runs[2].status = "failed"
    /\ \E t \in Threads : /\ handler[t].name = "pipeline_run"
                          /\ handler[t].pc = "respond"
                          /\ handler[t].status = 500

\* ------------------------------------------------------------------------
\* C30: pipeline runs are serialized by their callers: a scheduler cycle
\* and a POST /api/pipeline/run request (or two such requests) never
\* overlap between recording the run start and writing the scored table.
\* ------------------------------------------------------------------------
\* thread t has recorded the start of its run and not yet written the table
BetweenStartAndWrite(t) ==
    /\ handler[t].name \in {"pipeline_run", "scheduler_cycle"}
    /\ handler[t].pc = "compute"

C30_RunsSerialized ==
    \A t1, t2 \in Threads :
        BetweenStartAndWrite(t1) /\ BetweenStartAndWrite(t2) => t1 = t2

\* the part of C30 that the code keeps: the scheduler's own cycles follow
\* one another
C30_CyclesSerialized ==
    Cardinality({t \in Threads : handler[t].name = "scheduler_cycle"}) <= 1

\* ------------------------------------------------------------------------
\* C32: start_scheduler returns True and spawns one loop thread exactly
\* when the running flag was false, and returns False without spawning a
\* thread when it was true; stop_scheduler returns True and clears the
\* flag exactly when it was true, and returns False otherwise; both hold
\* for concurrent callers, the check and the update being under one lock.
\* ------------------------------------------------------------------------
\* the value a call returns, as the model writes it
Bool(b) == IF b THEN "True" ELSE "False"

\* the step in which caller c's call returns
CallReturns(c) == lifecycle[c].pc # "return" /\ lifecycle'[c].pc = "return"

\* the callers between the test of the flag and the return
InsideLock == {c \in Callers : lifecycle[c].pc \in {"test", "set"}}

C32_StartStopUnderLock ==
    [][/\ Cardinality(InsideLock) <= 1
       /\ \A c \in Callers : CallReturns(c) =>
            IF lifecycle[c].op = "start"
            THEN /\ lifecycle'[c].result = Bool(~scheduler_running)
                 /\ IF ~scheduler_running
                    THEN /\ scheduler_running'
                         /\ Len(scheduler_threads')
                                = Len(scheduler_threads) + 1
                    ELSE UNCHANGED <<scheduler_running, scheduler_threads>>
            ELSE /\ lifecycle'[c].result = Bool(scheduler_running)
                 /\ ~scheduler_running'
                 /\ UNCHANGED scheduler_threads
      ]_vars

\* of two callers of start_scheduler one has got True, the other False,
\* and one thread was spawned
C32_Witness ==
    /\ lifecycle["c1"] = [op |-> "start", pc |-> "return", result |-> "True"]
    /\ lifecycle["c2"].op = "start"
    /\ lifecycle["c2"].pc = "return"
    /\ lifecycle["c2"].result = "False"
    /\ Len(scheduler_threads) = 1

\* ------------------------------------------------------------------------
\* C35: at most one scheduler loop thread is executing cycles at any time,
\* for every interleaving of start_scheduler and stop_scheduler calls with
\* the loop's own steps, a start right after a stop included.
\* ------------------------------------------------------------------------
\* loop thread k is inside _run_pipeline_cycle, past its test for new
\* events
InCycle(k) == LoopAt(k, "note") \/ LoopAt(k, "cycle")

\* the loop threads inside _run_pipeline_cycle
LoopsInCycle == {k \in DOMAIN scheduler_threads : InCycle(k)}

C35_OneLoopThread == Cardinality(LoopsInCycle) <= 1

\* the part of C35 that the code keeps: a loop thread is created only
\* while the flag is false, and the flag is true while no stop has cleared
\* it
C35_SpawnOnlyWhenStopped ==
    [][Len(scheduler_threads') > Len(scheduler_threads)
          => ~scheduler_running /\ scheduler_running']_vars

\* ------------------------------------------------------------------------
\* C31: stop_scheduler never interrupts a pipeline cycle in progress;
\* after stop_scheduler has returned True and with no later start, the
\* loop begins no further cycle and the scheduler thread eventually exits.
\* ------------------------------------------------------------------------
\* the step in which loop thread k enters _run_pipeline_cycle
CycleBegins(k) == LoopAt(k, "call") /\ scheduler_threads'[k].pc # "call"

\* the flag is false from the stop that cleared it to the next start that
\* sets it
C31_NoCycleAfterStop ==
    [][~scheduler_running =>
          \A k \in DOMAIN scheduler_threads : ~CycleBegins(k)]_vars

AllLoopsExited ==
    \A k \in DOMAIN scheduler_threads : scheduler_threads[k].pc = "exited"

\* C31 as the code has it: a cycle in progress is left only by its own
\* end; once the flag is cleared no test of the flag passes, so a loop
\* thread enters at most the one cycle whose test came before the stop;
\* and with no later start every loop thread exits.
C31_StopLetsLoopFinish ==
    /\ [][\A k \in DOMAIN scheduler_threads :
            /\ InCycle(k) =>
                  scheduler_threads'[k].pc \in {"note", "cycle", "sleep"}
            /\ scheduler_threads'[k].pc \in {"note", "cycle"} =>
                  InCycle(k) \/ LoopAt(k, "call")
            /\ scheduler_threads'[k].pc = "call" =>
                  \/ LoopAt(k, "call")
                  \/ LoopAt(k, "test") /\ scheduler_running
         ]_vars
    /\ (~scheduler_running ~> (scheduler_running \/ AllLoopsExited))

\* a stop has returned True while the second loop thread is in a cycle;
\* the first has exited after an earlier stop
C31_Witness ==
    /\ ~scheduler_running
    /\ LoopAt(1, "exited")
    /\ InCycle(2)
    /\ \E c \in Callers : /\ lifecycle[c].op = "stop"
                          /\ lifecycle[c].pc = "return"
                          /\ lifecycle[c].result = "True"

\* ------------------------------------------------------------------------
\* C33: a scheduler cycle runs the pipeline only when the total event
\* count is strictly greater than the last count it recorded; it records
\* the new count before running, so after any cycle that observed count c
\* every later cycle is skipped until the count exceeds c, and the
\* recorded count never decreases.
\* ------------------------------------------------------------------------
\* what a cycle does with the count, step by step
CycleFollowsCount(k) ==
    /\ LoopAt(k, "call") /\ scheduler_threads'[k].pc = "note"
          => /\ TotalEvents > last_event_count
             /\ scheduler_threads'[k].count = TotalEvents
    /\ LoopAt(k, "call") /\ scheduler_threads'[k].pc = "sleep"
          => TotalEvents <= last_event_count
    /\ LoopAt(k, "note") /\ scheduler_threads'[k].pc = "cycle"
          => last_event_count' = scheduler_threads[k].count
    /\ scheduler_threads'[k].pc = "cycle"
          => LoopAt(k, "cycle") \/ LoopAt(k, "note")

C33_CountGatesCycles ==
    [][/\ \A k \in DOMAIN scheduler_threads : CycleFollowsCount(k)
       /\ last_event_count' >= last_event_count
       /\ \A k \in DOMAIN scheduler_threads :
            LoopAt(k, "note") /\ scheduler_threads'[k].pc = "cycle"
                => scheduler_threads[k].count > last_event_count
      ]_vars

\* the part of C33 that the code keeps: the cycles of a single loop thread
C33_OneLoopCountGatesCycles ==
    [][Len(scheduler_threads') <= 1 =>
        /\ \A k \in DOMAIN scheduler_threads : CycleFollowsCount(k)
        /\ last_event_count' >= last_event_count
        /\ \A k \in DOMAIN scheduler_threads :
             LoopAt(k, "note") /\ scheduler_threads'[k].pc = "cycle"
                 => scheduler_threads[k].count > last_event_count
      ]_vars

\* ------------------------------------------------------------------------
\* C36: PHISH_CLICKED and MICRO_TRAINING_COMPLETED are transient: whenever
\* no transition() call is in progress for a user, that user's state is
\* neither of the two, after any sequence of non-overlapping calls.
\* ------------------------------------------------------------------------
\* a call of transition() for user u is in progress
InProgress(u) ==
    \E t \in Threads : \E i \in DOMAIN stack[t] : stack[t][i].user_id = u

C36_TransientStates ==
    \A u \in Users :
        ~InProgress(u) =>
            get_state(user_states, u)
                \notin {"PHISH_CLICKED", "MICRO_TRAINING_COMPLETED"}

\* a user at rest who has passed through both transient states
C36_Witness ==
    \E u \in Users :
        /\ ~InProgress(u)
        /\ user_states[u] = "MANDATORY_TRAINING_REQUIRED"
        /\ \E i, j \in DOMAIN state_transitions :
              /\ state_transitions[i].user_id = u
              /\ state_transitions[i].to_state = "PHISH_CLICKED"
              /\ state_transitions[j].user_id = u
              /\ state_transitions[j].to_state = "MICRO_TRAINING_COMPLETED"

\* ------------------------------------------------------------------------
\* C37: when transition() calls for a user do not overlap, the user's
\* audit entries in insertion order form one chain: the first entry's
\* from_state is CLEAN, each later entry's from_state is the previous
\* entry's to_state, every entry is a row of the transition table, and the
\* user's current state is the to_state of the last entry.
\* ------------------------------------------------------------------------
IsChain(rows) ==
    /\ rows # <<>> => rows[1].from_state = "CLEAN"
    /\ \A i \in 2..Len(rows) : rows[i].from_state = rows[i - 1].to_state
    /\ \A i \in DOMAIN rows :
          /\ <<rows[i].from_state, rows[i].trigger>> \in DOMAIN TRANSITIONS
          /\ rows[i].to_state
                = TRANSITIONS[<<rows[i].from_state, rows[i].trigger>>]

C37_AuditChain ==
    \A u \in Users :
        LET rows == RowsOf(state_transitions, u)
        IN /\ IsChain(rows)
           /\ rows # <<>> => user_states[u] = rows[Len(rows)].to_state
           /\ rows = <<>> => user_states[u] = NoRow

\* a user's chain that has gone through a whole cycle and begun the next
C37_Witness ==
    \E u \in Users :
        LET rows == RowsOf(state_transitions, u)
        IN /\ Len(rows) >= 7
           /\ rows[Len(rows)].from_state = "COMPLIANT"
           /\ user_states[u] = "PHISH_SENT"

\* ------------------------------------------------------------------------
\* C39: the result of an accepted transition() call describes the first
\* hop only: from_state is the state before the call, to_state the table
\* target of the requested trigger; after the call get_state(user) is
\* to_state unless to_state is PHISH_CLICKED or MICRO_TRAINING_COMPLETED,
\* in which case it is the auto-chained target, which the result does not
\* hold.
\* ------------------------------------------------------------------------
ChainedTarget(to_state) ==
    IF to_state = "PHISH_CLICKED" THEN "MICRO_TRAINING_REQUIRED"
    ELSE IF to_state = "MICRO_TRAINING_COMPLETED"
         THEN "MANDATORY_TRAINING_REQUIRED"
         ELSE to_state

C39_ResultIsFirstHop ==
    \A t \in Threads :
        Returning(t) /\ stack[t][1].success =>
            LET f == stack[t][1]
                rows == RowsOf(state_transitions, f.user_id)
            IN /\ f.current = IF f.rows0 = 0 THEN "CLEAN"
                              ELSE rows[f.rows0].to_state
               /\ <<f.current, f.trigger>> \in DOMAIN TRANSITIONS
               /\ f.new_state = TRANSITIONS[<<f.current, f.trigger>>]
               /\ f.reason = CallerReason
               /\ get_state(user_states, f.user_id)
                     = ChainedTarget(f.new_state)

\* an accepted micro_completed returns: the result says
\* MICRO_TRAINING_COMPLETED, the user is in MANDATORY_TRAINING_REQUIRED
C39_Witness ==
    \E t \in Threads :
        /\ Returning(t)
        /\ stack[t][1].success
        /\ stack[t][1].new_state = "MICRO_TRAINING_COMPLETED"
        /\ user_states[stack[t][1].user_id] = "MANDATORY_TRAINING_REQUIRED"

\* ------------------------------------------------------------------------
\* C38: no user row ever holds CLEAN: rows are created only by an accepted
\* transition and no table entry targets CLEAN, so a user who has left
\* CLEAN never returns to it and get_state_distribution() reports 0 for
\* CLEAN in every reachable state, however many users were never phished.
\* ------------------------------------------------------------------------
C38_Step ==
    /\ \A u \in Users :
          /\ user_states'[u] # "CLEAN"
          /\ get_state(user_states, u) # "CLEAN"
                => get_state(user_states', u) # "CLEAN"
          /\ user_states[u] = NoRow /\ user_states'[u] # NoRow
                => \E t \in Threads :
                      /\ AtPc(t, "commit")
                      /\ Top(t).user_id = u
                      /\ <<Top(t).current, Top(t).trigger>>
                            \in DOMAIN TRANSITIONS
    /\ \A t \in Threads :
          query'[t].op = "get_state_distribution"
              => query'[t].result["CLEAN"] = 0

C38_NoRowHoldsClean == [][C38_Step]_vars

\* the distribution asked for while one user has a row and the other was
\* never phished
C38_Witness ==
    \E t \in Threads :
        /\ query[t].op = "get_state_distribution"
        /\ query[t].result["CLEAN"] = 0
        /\ query[t].result["COMPLIANT"] = 1
        /\ \E u \in Users : user_states[u] = NoRow
        /\ \E u \in Users : user_states[u] = "COMPLIANT"

\* ------------------------------------------------------------------------
\* C40: every tracked click on a known tracking token creates exactly one
\* new micro training session in status 'assigned' for the email's user,
\* whether or not the phish_clicked transition was accepted; a click on an
\* unknown token records no interaction, fires no trigger and creates no
\* session.
\* ------------------------------------------------------------------------
\* thread t begins to handle a click
ClickBegins(t) == handler[t] = Idle /\ handler'[t].name = "track_email_click"

\* thread t, handling a click, has its response ready in the next state
ClickEnds(t) ==
    /\ handler[t].name = "track_email_click"
    /\ handler[t].pc = "in_transition"
    /\ handler'[t].pc = "respond"

C40_Step ==
    \A t \in Threads :
        /\ ClickBegins(t) /\ handler'[t].pc = "in_transition" =>
              LET token == handler'[t].token
              IN /\ KnownToken(email_events, token)
                 /\ handler'[t].user = email_events[token].user_id
                 /\ email_interactions' =
                       Append(email_interactions,
                              [tracking_token |-> token,
                               user_id |-> email_events[token].user_id,
                               interaction |-> "click"])
                 /\ Len(stack'[t]) = 1
                 /\ stack'[t][1].trigger = "phish_clicked"
                 /\ stack'[t][1].user_id = email_events[token].user_id
                 /\ UNCHANGED training_sessions
        /\ ClickBegins(t) /\ handler'[t].pc = "respond" =>
              UNCHANGED <<email_interactions, email_events, training_sessions,
                          stack, user_states, state_transitions>>
        /\ handler[t].name = "track_email_click" /\ ~ClickEnds(t) =>
              UNCHANGED training_sessions
        /\ ClickEnds(t) =>
              training_sessions' =
                  Append(training_sessions,
                         [user_id |-> email_events[handler[t].token].user_id,
                          training_type |-> "micro", status |-> "assigned",
                          trigger_email_id |-> handler[t].token])

C40_ClickCreatesSession == [][C40_Step]_vars

\* a click whose phish_clicked was rejected has created its session
C40_Witness ==
    \E t \in Threads :
        /\ handler[t].name = "track_email_click"
        /\ handler[t].pc = "respond"
        /\ handler[t].status = 302
        /\ Len(email_interactions) = 2
        /\ Len(training_sessions) = 2
        /\ \A i \in 1..2 : /\ training_sessions[i].training_type = "micro"
                           /\ training_sessions[i].user_id = "u1"
        /\ training_sessions[2].status = "assigned"
        /\ Len(state_transitions) = 3

\* ------------------------------------------------------------------------
\* C34: no simulated-phishing email is dispatched or logged, and no
\* email_sent trigger is issued, for a user who has a training session in
\* status "assigned" or "in_progress": POST /api/email/send answers 409 for
\* such a user, and the send-auto loop, the pipeline's auto-send and the
\* scheduler's cycle pass such a user over.
\* ------------------------------------------------------------------------
\* thread t issues transition(user, "email_sent") in this step
IssuesEmailSent(t) ==
    /\ stack[t] = <<>>
    /\ Len(stack'[t]) = 1
    /\ stack'[t][1].trigger = "email_sent"

C34_Step ==
    /\ LogsEmail =>
          ~HasPendingTraining(training_sessions,
                              email_events'[Len(email_events')].user_id)
    /\ \A t \in Threads :
          IssuesEmailSent(t) =>
              ~HasPendingTraining(training_sessions, stack'[t][1].user_id)
    /\ \A t \in Threads, u \in Users :
          /\ Free(t)
          /\ handler'[t].name = "send_email"
          /\ handler'[t].user = u
          /\ HasPendingTraining(training_sessions, u)
          => /\ handler'[t].pc = "respond"
             /\ handler'[t].status = 409
    /\ \A t \in Threads :
          /\ handler[t].pc = "loop"
          /\ handler[t].todo # <<>>
          /\ HasPendingTraining(training_sessions, Head(handler[t].todo))
          => handler'[t].pc # "dispatch"

\* C34: every step keeps emails away from a user with pending training.
\* Each path tests has_pending_training before it sends and holds no lock
\* from the test to the send, so the statement holds of one handler at a
\* time (SpecApp) and not of two threads (SpecAutoSend).
C34_NoEmailDuringTraining == [][C34_Step]_vars

\* a send request was answered 409 because of an assigned session, and an
\* earlier email had been sent and logged
C34_Refused ==
    \E t \in Threads :
        /\ handler[t].name = "send_email"
        /\ handler[t].pc = "respond"
        /\ handler[t].status = 409
        /\ HasPendingTraining(training_sessions, handler[t].user)
        /\ Len(email_events) >= 1

====
